---- MODULE Spec2Model ----
(***************************************************************************)
(* Order lifecycle of the iStar gateway: the four create handlers, the    *)
(* order service behind them, the upstream client's classification of the *)
(* provider's reply, the webhook handler, and the orders table the        *)
(* repository interface stands for.                                       *)
(*                                                                         *)
(* Optional Go values (pointers to string, int and time.Time, a missing   *)
(* map key, a nil error) are sequences of length at most one: <<>> is nil.*)
(***************************************************************************)
EXTENDS Integers, Sequences, FiniteSets, TLC

VARIABLES webhookSecret, orders, last, inflight

vars == <<webhookSecret, orders, last, inflight>>

Nil == <<>>
Some(x) == <<x>>
IsNil(o) == o = <<>>
Val(o) == o[1]

(***************************************************************************)
(* models: statuses, types, errors                                         *)
(***************************************************************************)
StatusPending == "pending"
StatusCompleted == "completed"
StatusFailed == "failed"
OrderStatusEnum == {StatusPending, StatusCompleted, StatusFailed}

OrderTypeStar == "star"
OrderTypePremium == "premium"

NewAPIError(code, message) == [api |-> TRUE, code |-> code, message |-> message]
ValidationError(message) == NewAPIError(400, message)
UnauthorizedError(message) == NewAPIError(401, message)
NotFoundError(message) == NewAPIError(404, message)
InternalServerError(message) == NewAPIError(500, message)
\* fmt.Errorf("sending request failed: %w", err): a plain error, not an APIError
TransportError == [api |-> FALSE, code |-> 0, message |-> "sending request failed"]

\* the errors of the steps the orchestrator runs after the client: time.Parse
\* and uuid.Parse on a string they do not take, and r.db.Exec in CreateOrder
TimeParseError == [api |-> FALSE, code |-> 0, message |-> "parsing time: cannot parse"]
UuidParseError == [api |-> FALSE, code |-> 0, message |-> "invalid UUID"]
StoreError == [api |-> FALSE, code |-> 0, message |-> "db exec failed"]

\* ErrorHandler: the HTTP status written for the last error of the request
ErrorHandlerCode(e) == IF e.api THEN e.code ELSE 500

(***************************************************************************)
(* Parsing of the provider's strings                                       *)
(***************************************************************************)
\* time.Parse(time.RFC3339, s): the instant, or an error
ParseRFC3339(s) ==
  CASE s = "2024-01-01T00:00:00Z" -> Some(<<2024, 1, 1, 0, 0, 0>>)
    [] s = "2024-01-01T01:00:00+01:00" -> Some(<<2024, 1, 1, 0, 0, 0>>)
    [] s = "2024-01-01T00:05:00Z" -> Some(<<2024, 1, 1, 0, 5, 0>>)
    [] OTHER -> Nil

\* time.Now() at the moment a handler runs
Now == <<2024, 1, 2, 0, 0, 0>>

\* uuid.Parse(s): the UUID in canonical (lower-case, hyphenated) form, or an error
UuidParse(s) ==
  CASE s = "11111111-1111-1111-1111-111111111111" -> Some("11111111-1111-1111-1111-111111111111")
    [] s = "22222222-2222-2222-2222-222222222222" -> Some("22222222-2222-2222-2222-222222222222")
    [] s = "urn:uuid:22222222-2222-2222-2222-222222222222" -> Some("22222222-2222-2222-2222-222222222222")
    [] OTHER -> Nil

U1 == "11111111-1111-1111-1111-111111111111"
U2 == "22222222-2222-2222-2222-222222222222"

(***************************************************************************)
(* Order Store: the orders table behind OrderRepository, a function from  *)
(* the ids present to their rows.  The repository methods of this build   *)
(* issue no statement (their SQL is commented out); the table follows the *)
(* two statements they record: INSERT INTO orders (...) and               *)
(* UPDATE orders SET status, tx_hash, completed_at, error_message,        *)
(* updated_at WHERE id.  dbFail is a failure of the database itself.      *)
(***************************************************************************)
\* the row INSERT writes: tx_hash, completed_at, error_message are not among its columns
InsertedRow(order) ==
  [id |-> order.ID, type |-> order.Type, status |-> order.Status,
   username |-> order.Username, recipient_hash |-> order.RecipientHash,
   quantity |-> order.Quantity, months |-> order.Months, amount |-> order.Amount,
   wallet_type |-> order.WalletType, created_at |-> order.CreatedAt,
   updated_at |-> order.UpdatedAt,
   tx_hash |-> Nil, completed_at |-> Nil, error_message |-> Nil]

\* CreateOrder as an upsert: INSERT ... ON CONFLICT (id) DO UPDATE
RepoCreateOrderUpserting(tbl, order, dbFail) ==
  IF dbFail
  THEN [err |-> TRUE, tbl |-> tbl]
  ELSE [err |-> FALSE,
        tbl |-> [i \in DOMAIN tbl \cup {order.ID} |->
                   IF i = order.ID THEN InsertedRow(order) ELSE tbl[i]]]

\* CreateOrder writing the row and then reporting the failure of the database
RepoCreateOrderWritingThenFailing(tbl, order, dbFail) ==
  IF order.ID \in DOMAIN tbl
  THEN [err |-> TRUE, tbl |-> tbl]
  ELSE [err |-> dbFail,
        tbl |-> [i \in DOMAIN tbl \cup {order.ID} |->
                   IF i = order.ID THEN InsertedRow(order) ELSE tbl[i]]]

\* CreateOrder: [err, tbl]; an id already present violates the key and adds nothing
RepoCreateOrder(tbl, order, dbFail) ==
  IF dbFail \/ order.ID \in DOMAIN tbl
  THEN [err |-> TRUE, tbl |-> tbl]
  ELSE [err |-> FALSE,
        tbl |-> [i \in DOMAIN tbl \cup {order.ID} |->
                   IF i = order.ID THEN InsertedRow(order) ELSE tbl[i]]]

\* UpdateOrderStatus adding the error message to the one stored
RepoUpdateOrderStatusAppending(tbl, orderID, status, txHash, completedAt, errorMessage, dbFail) ==
  IF dbFail
  THEN [err |-> TRUE, tbl |-> tbl]
  ELSE [err |-> FALSE,
        tbl |-> [i \in DOMAIN tbl |->
                   IF i = orderID
                   THEN [tbl[i] EXCEPT !.status = status, !.tx_hash = txHash,
                                       !.completed_at = completedAt,
                                       !.error_message =
                                          IF Len(@) < 2 THEN @ \o errorMessage ELSE @,
                                       !.updated_at = Now]
                   ELSE tbl[i]]]

\* UpdateOrderStatus without its WHERE clause
RepoUpdateOrderStatusEveryRow(tbl, orderID, status, txHash, completedAt, errorMessage, dbFail) ==
  IF dbFail
  THEN [err |-> TRUE, tbl |-> tbl]
  ELSE [err |-> FALSE,
        tbl |-> [i \in DOMAIN tbl |->
                   [tbl[i] EXCEPT !.status = status, !.tx_hash = txHash,
                                  !.completed_at = completedAt,
                                  !.error_message = errorMessage,
                                  !.updated_at = Now]]]

\* UpdateOrderStatus: [err, tbl]; an id that matches no row updates nothing and is no error
RepoUpdateOrderStatus(tbl, orderID, status, txHash, completedAt, errorMessage, dbFail) ==
  IF dbFail
  THEN [err |-> TRUE, tbl |-> tbl]
  ELSE [err |-> FALSE,
        tbl |-> [i \in DOMAIN tbl |->
                   IF i = orderID
                   THEN [tbl[i] EXCEPT !.status = status, !.tx_hash = txHash,
                                       !.completed_at = completedAt,
                                       !.error_message = errorMessage,
                                       !.updated_at = Now]
                   ELSE tbl[i]]]

(***************************************************************************)
(* client: IStarClient                                                     *)
(* A reply of the provider is [transport, code, body]: transport = TRUE   *)
(* is a failure of httpClient.Do (connection error, timeout,              *)
(* cancellation); body is the typed response decoded from the JSON body,  *)
(* nil when the body does not decode.                                     *)
(***************************************************************************)
\* the switch on resp.StatusCode taken when the code is not the expected one
ClassifyStatus(code) ==
  CASE code = 400 -> ValidationError("Invalid request parameters")
    [] code = 401 -> UnauthorizedError("Invalid API key")
    [] code = 404 -> NotFoundError("Resource not found")
    [] OTHER -> InternalServerError("Unexpected status code")

\* ClientCreate taking either success code, 200 or 202, from any method
ClientCreateAnySuccess(expected, reply) ==
  IF reply.transport THEN [err |-> Some(TransportError), resp |-> Nil]
  ELSE IF reply.code \notin {200, 202}
       THEN [err |-> Some(ClassifyStatus(reply.code)), resp |-> Nil]
  ELSE IF IsNil(reply.body)
       THEN [err |-> Some(InternalServerError("Failed to decode response")), resp |-> Nil]
  ELSE [err |-> Nil, resp |-> reply.body]

\* the body shared by the four create methods: [err, resp]
ClientCreate(expected, reply) ==
  IF reply.transport THEN [err |-> Some(TransportError), resp |-> Nil]
  ELSE IF reply.code # expected
       THEN [err |-> Some(ClassifyStatus(reply.code)), resp |-> Nil]
  ELSE IF IsNil(reply.body)
       THEN [err |-> Some(InternalServerError("Failed to decode response")), resp |-> Nil]
  ELSE [err |-> Nil, resp |-> reply.body]

ClientCreateStarOrderAsync(reply) == ClientCreate(202, reply)
ClientCreateStarOrderSync(reply) == ClientCreate(200, reply)
ClientCreatePremiumOrderAsync(reply) == ClientCreate(202, reply)
ClientCreatePremiumOrderSync(reply) == ClientCreate(200, reply)

(***************************************************************************)
(* services: orderService                                                  *)
(* A result is [err, order, tbl, repoCalls, providerCalls]: the error or  *)
(* the Order returned, the table afterwards, the repository calls made    *)
(* and the number of requests sent to the provider.                       *)
(***************************************************************************)

\* Failure turning every error into an internal error that carries its message
FailureAsInternal(e, tbl) ==
  [err |-> Some(InternalServerError(e.message)), order |-> Nil, tbl |-> tbl,
   repoCalls |-> <<>>, providerCalls |-> 1]

Failure(e, tbl) ==
  [err |-> Some(e), order |-> Nil, tbl |-> tbl, repoCalls |-> <<>>, providerCalls |-> 1]

\* SaveOrder returning the Order although CreateOrder failed
SaveOrderIgnoringError(order, tbl, dbFail) ==
  LET r == RepoCreateOrder(tbl, order, dbFail)
      call == [method |-> "CreateOrder", order |-> order]
  IN [err |-> Nil, order |-> Some(order), tbl |-> r.tbl, repoCalls |-> <<call>>,
      providerCalls |-> 1]

\* s.repo.CreateOrder(ctx, order) and the return that follows it
SaveOrder(order, tbl, dbFail) ==
  LET r == RepoCreateOrder(tbl, order, dbFail)
      call == [method |-> "CreateOrder", order |-> order]
  IN IF r.err
     THEN [err |-> Some(InternalServerError("Failed to save order")), order |-> Nil,
           tbl |-> r.tbl, repoCalls |-> <<call>>, providerCalls |-> 1]
     ELSE [err |-> Nil, order |-> Some(order), tbl |-> r.tbl, repoCalls |-> <<call>>,
           providerCalls |-> 1]

\* SyncStatus letting every status of the enumeration through, pending too
SyncStatusOfEnum(s) == IF s \notin OrderStatusEnum THEN StatusFailed ELSE s

\* status := OrderStatus(resp.Status), coerced to failed unless completed or failed
SyncStatus(s) == IF s # StatusCompleted /\ s # StatusFailed THEN StatusFailed ELSE s

\* StarOrderAsync taking the quantity from the request instead of the response
StarOrderAsyncOfRequest(req, resp, orderID, createdAt) ==
  [ID |-> orderID, Type |-> OrderTypeStar, Status |-> StatusPending,
   Username |-> req.username, RecipientHash |-> req.recipient_hash,
   Quantity |-> Some(req.quantity), Months |-> Nil, Amount |-> resp.amount,
   WalletType |-> req.wallet_type, TxHash |-> Nil, CreatedAt |-> createdAt,
   UpdatedAt |-> createdAt, CompletedAt |-> Nil, ErrorMessage |-> ""]

\* the Order each create operation builds from the request and the response
StarOrderAsync(req, resp, orderID, createdAt) ==
  [ID |-> orderID, Type |-> OrderTypeStar, Status |-> StatusPending,
   Username |-> req.username, RecipientHash |-> req.recipient_hash,
   Quantity |-> Some(resp.quantity), Months |-> Nil, Amount |-> resp.amount,
   WalletType |-> req.wallet_type, TxHash |-> Nil, CreatedAt |-> createdAt,
   UpdatedAt |-> createdAt, CompletedAt |-> Nil, ErrorMessage |-> ""]

StarOrderSync(req, resp, orderID, status, createdAt, completedAt) ==
  [ID |-> orderID, Type |-> OrderTypeStar, Status |-> status,
   Username |-> req.username, RecipientHash |-> req.recipient_hash,
   Quantity |-> Some(resp.quantity), Months |-> Nil, Amount |-> resp.amount,
   WalletType |-> req.wallet_type, TxHash |-> resp.tx_hash, CreatedAt |-> createdAt,
   UpdatedAt |-> Now, CompletedAt |-> completedAt, ErrorMessage |-> ""]

PremiumOrderAsync(req, resp, orderID, createdAt) ==
  [ID |-> orderID, Type |-> OrderTypePremium, Status |-> StatusPending,
   Username |-> req.username, RecipientHash |-> req.recipient_hash,
   Quantity |-> Nil, Months |-> Some(resp.months), Amount |-> resp.amount,
   WalletType |-> req.wallet_type, TxHash |-> Nil, CreatedAt |-> createdAt,
   UpdatedAt |-> createdAt, CompletedAt |-> Nil, ErrorMessage |-> ""]

\* PremiumOrderSync filling Quantity as the star operation does
PremiumOrderSyncWithQuantity(req, resp, orderID, status, createdAt, completedAt) ==
  [ID |-> orderID, Type |-> OrderTypePremium, Status |-> status,
   Username |-> req.username, RecipientHash |-> req.recipient_hash,
   Quantity |-> Some(resp.months), Months |-> Some(resp.months), Amount |-> resp.amount,
   WalletType |-> req.wallet_type, TxHash |-> resp.tx_hash, CreatedAt |-> createdAt,
   UpdatedAt |-> Now, CompletedAt |-> completedAt, ErrorMessage |-> ""]

PremiumOrderSync(req, resp, orderID, status, createdAt, completedAt) ==
  [ID |-> orderID, Type |-> OrderTypePremium, Status |-> status,
   Username |-> req.username, RecipientHash |-> req.recipient_hash,
   Quantity |-> Nil, Months |-> Some(resp.months), Amount |-> resp.amount,
   WalletType |-> req.wallet_type, TxHash |-> resp.tx_hash, CreatedAt |-> createdAt,
   UpdatedAt |-> Now, CompletedAt |-> completedAt, ErrorMessage |-> ""]

CreateStarOrderAsync(req, reply, tbl, dbFail) ==
  LET c == ClientCreateStarOrderAsync(reply) IN
  IF ~IsNil(c.err) THEN Failure(Val(c.err), tbl)
  ELSE LET resp == Val(c.resp)
           createdAt == ParseRFC3339(resp.created_at)
           orderID == UuidParse(resp.order_id)
       IN IF IsNil(createdAt)
          THEN Failure(InternalServerError("Invalid created_at timestamp"), tbl)
          ELSE IF IsNil(orderID)
          THEN Failure(InternalServerError("Invalid order_id"), tbl)
          ELSE SaveOrder(StarOrderAsync(req, resp, Val(orderID), Val(createdAt)), tbl, dbFail)

\* CreateStarOrderSync checking the order id before the completed_at timestamp
CreateStarOrderSyncIdFirst(req, reply, tbl, dbFail) ==
  LET c == ClientCreateStarOrderSync(reply) IN
  IF ~IsNil(c.err) THEN Failure(Val(c.err), tbl)
  ELSE LET resp == Val(c.resp)
           createdAt == ParseRFC3339(resp.created_at)
           t == IF IsNil(resp.completed_at) THEN Nil
                ELSE ParseRFC3339(Val(resp.completed_at))
           orderID == UuidParse(resp.order_id)
       IN IF IsNil(createdAt)
          THEN Failure(InternalServerError("Invalid created_at timestamp"), tbl)
          ELSE IF IsNil(orderID)
          THEN Failure(InternalServerError("Invalid order_id"), tbl)
          ELSE IF ~IsNil(resp.completed_at) /\ IsNil(t)
          THEN Failure(InternalServerError("Invalid completed_at timestamp"), tbl)
          ELSE SaveOrder(StarOrderSync(req, resp, Val(orderID), SyncStatus(resp.status),
                                       Val(createdAt), t), tbl, dbFail)

CreateStarOrderSync(req, reply, tbl, dbFail) ==
  LET c == ClientCreateStarOrderSync(reply) IN
  IF ~IsNil(c.err) THEN Failure(Val(c.err), tbl)
  ELSE LET resp == Val(c.resp)
           createdAt == ParseRFC3339(resp.created_at)
           t == IF IsNil(resp.completed_at) THEN Nil
                ELSE ParseRFC3339(Val(resp.completed_at))
           orderID == UuidParse(resp.order_id)
       IN IF IsNil(createdAt)
          THEN Failure(InternalServerError("Invalid created_at timestamp"), tbl)
          ELSE IF ~IsNil(resp.completed_at) /\ IsNil(t)
          THEN Failure(InternalServerError("Invalid completed_at timestamp"), tbl)
          ELSE IF IsNil(orderID)
          THEN Failure(InternalServerError("Invalid order_id"), tbl)
          ELSE SaveOrder(StarOrderSync(req, resp, Val(orderID), SyncStatus(resp.status),
                                       Val(createdAt), t), tbl, dbFail)

CreatePremiumOrderAsync(req, reply, tbl, dbFail) ==
  LET c == ClientCreatePremiumOrderAsync(reply) IN
  IF ~IsNil(c.err) THEN Failure(Val(c.err), tbl)
  ELSE LET resp == Val(c.resp)
           createdAt == ParseRFC3339(resp.created_at)
           orderID == UuidParse(resp.order_id)
       IN IF IsNil(createdAt)
          THEN Failure(InternalServerError("Invalid created_at timestamp"), tbl)
          ELSE IF IsNil(orderID)
          THEN Failure(InternalServerError("Invalid order_id"), tbl)
          ELSE SaveOrder(PremiumOrderAsync(req, resp, Val(orderID), Val(createdAt)),
                         tbl, dbFail)

CreatePremiumOrderSync(req, reply, tbl, dbFail) ==
  LET c == ClientCreatePremiumOrderSync(reply) IN
  IF ~IsNil(c.err) THEN Failure(Val(c.err), tbl)
  ELSE LET resp == Val(c.resp)
           createdAt == ParseRFC3339(resp.created_at)
           t == IF IsNil(resp.completed_at) THEN Nil
                ELSE ParseRFC3339(Val(resp.completed_at))
           orderID == UuidParse(resp.order_id)
       IN IF IsNil(createdAt)
          THEN Failure(InternalServerError("Invalid created_at timestamp"), tbl)
          ELSE IF ~IsNil(resp.completed_at) /\ IsNil(t)
          THEN Failure(InternalServerError("Invalid completed_at timestamp"), tbl)
          ELSE IF IsNil(orderID)
          THEN Failure(InternalServerError("Invalid order_id"), tbl)
          ELSE SaveOrder(PremiumOrderSync(req, resp, Val(orderID), SyncStatus(resp.status),
                                          Val(createdAt), t), tbl, dbFail)

(***************************************************************************)
(* handlers: StarHandler, PremiumHandler                                   *)
(* A request is the posted body: json = FALSE is a body that is not JSON  *)
(* of the request's shape.  An outcome is [err, code, order, tbl,         *)
(* repoCalls, providerCalls]: the error handed to c.Error, the status     *)
(* written by c.JSON (0 when none), the Order written, the table          *)
(* afterwards and the calls made.                                         *)
(***************************************************************************)
isValidMonths(months) == months = 3 \/ months = 6 \/ months = 12

\* c.ShouldBindJSON(&req) with binding:"required" and "min=50,max=1000000"
BindStarRequest(raw) ==
  /\ raw.json
  /\ raw.username # "" /\ raw.recipient_hash # "" /\ raw.wallet_type # ""
  /\ raw.quantity # 0 /\ raw.quantity >= 50 /\ raw.quantity <= 1000000

\* c.ShouldBindJSON(&req) with binding:"required" and "oneof=3 6 12"
BindPremiumRequest(raw) ==
  /\ raw.json
  /\ raw.username # "" /\ raw.recipient_hash # "" /\ raw.wallet_type # ""
  /\ raw.months # 0 /\ raw.months \in {3, 6, 12}

\* the handler's own check after binding
StarParamsInvalid(req) ==
  \/ req.username = "" \/ req.recipient_hash = ""
  \/ req.quantity < 50 \/ req.quantity > 1000000 \/ req.wallet_type = ""

PremiumParamsInvalid(req) ==
  \/ req.username = "" \/ req.recipient_hash = ""
  \/ ~isValidMonths(req.months) \/ req.wallet_type = ""

Rejected(e, tbl) ==
  [err |-> Some(e), code |-> 0, order |-> Nil, tbl |-> tbl,
   repoCalls |-> <<>>, providerCalls |-> 0]

\* the handler's tail: c.Error(err), or c.JSON(status, resp)
Respond(r, status) ==
  IF ~IsNil(r.err)
  THEN [err |-> r.err, code |-> 0, order |-> Nil, tbl |-> r.tbl,
        repoCalls |-> r.repoCalls, providerCalls |-> r.providerCalls]
  ELSE [err |-> Nil, code |-> status, order |-> r.order, tbl |-> r.tbl,
        repoCalls |-> r.repoCalls, providerCalls |-> r.providerCalls]

CreateStarGiftAsyncHandler(raw, reply, tbl, dbFail) ==
  IF ~BindStarRequest(raw) THEN Rejected(ValidationError("Invalid request body"), tbl)
  ELSE IF StarParamsInvalid(raw)
  THEN Rejected(ValidationError("Invalid request parameters"), tbl)
  ELSE Respond(CreateStarOrderAsync(raw, reply, tbl, dbFail), 202)

CreateStarGiftSyncHandler(raw, reply, tbl, dbFail) ==
  IF ~BindStarRequest(raw) THEN Rejected(ValidationError("Invalid request body"), tbl)
  ELSE IF StarParamsInvalid(raw)
  THEN Rejected(ValidationError("Invalid request parameters"), tbl)
  ELSE Respond(CreateStarOrderSync(raw, reply, tbl, dbFail), 200)

\* CreatePremiumGiftAsyncHandler without the returns after c.Error
CreatePremiumGiftAsyncHandlerFallThrough(raw, reply, tbl, dbFail) ==
  Respond(CreatePremiumOrderAsync(raw, reply, tbl, dbFail), 202)

CreatePremiumGiftAsyncHandler(raw, reply, tbl, dbFail) ==
  IF ~BindPremiumRequest(raw) THEN Rejected(ValidationError("Invalid request body"), tbl)
  ELSE IF PremiumParamsInvalid(raw)
  THEN Rejected(ValidationError("Invalid request parameters"), tbl)
  ELSE Respond(CreatePremiumOrderAsync(raw, reply, tbl, dbFail), 202)

CreatePremiumGiftSyncHandler(raw, reply, tbl, dbFail) ==
  IF ~BindPremiumRequest(raw) THEN Rejected(ValidationError("Invalid request body"), tbl)
  ELSE IF PremiumParamsInvalid(raw)
  THEN Rejected(ValidationError("Invalid request parameters"), tbl)
  ELSE Respond(CreatePremiumOrderSync(raw, reply, tbl, dbFail), 200)

(***************************************************************************)
(* handlers: WebhookHandler                                                *)
(* A delivery is the X-iStar-Signature header (<<>> when missing) and the *)
(* body [readable, json, order, tx_hash, completed_at]: readable = FALSE  *)
(* is a body whose read fails, json = FALSE one that does not bind to     *)
(* WebhookPayload, order the map under "order" (nil when absent), whose   *)
(* entries id, status, error are absent (<<>>) or a JSON value            *)
(* <<kind, text>>.                                                        *)
(***************************************************************************)
\* HMAC-SHA256 of the body under the secret, taken as collision-free
Hmac(secret, body) == <<"hmac-sha256", secret, body>>
HexHmac(secret, body) == <<"hex", Hmac(secret, body)>>

\* AsString turning any value present into a string, as fmt.Sprint would
AsStringOfAny(v) == IF v # <<>> THEN Some(v[2]) ELSE Nil

\* v.(string) on a map entry: the string, or not ok
AsString(v) == IF v # <<>> /\ v[1] = "string" THEN Some(v[2]) ELSE Nil
Entry(m, key) == IF IsNil(m) THEN <<>> ELSE Val(m)[key]

\* SignatureValid letting a request without the header through
SignatureValidOrMissing(secret, signature, body) ==
  signature = <<>> \/ signature = HexHmac(secret, body)

\* SignatureValid computing the HMAC after the body was consumed, over no bytes
SignatureValidOverConsumedBody(secret, signature, body) ==
  signature = HexHmac(secret, [body EXCEPT !.json = FALSE, !.order = Nil,
                                           !.tx_hash = Nil, !.completed_at = Nil])

\* hmac.Equal([]byte(signature), []byte(expected))
SignatureValid(secret, signature, body) == signature = HexHmac(secret, body)

\* UpdateCall leaving the transaction hash out
UpdateCallNoTxHash(body, orderID, status, errorMessage) ==
  [method |-> "UpdateOrderStatus", orderID |-> orderID, status |-> status,
   txHash |-> Nil, completedAt |-> body.completed_at, errorMessage |-> errorMessage]

\* the arguments of h.repo.UpdateOrderStatus
UpdateCall(body, orderID, status, errorMessage) ==
  [method |-> "UpdateOrderStatus", orderID |-> orderID, status |-> status,
   txHash |-> body.tx_hash, completedAt |-> body.completed_at,
   errorMessage |-> errorMessage]

\* HandleWebhookHandler verifying the signature also when no secret is configured
HandleWebhookHandlerAlwaysVerifying(secret, signature, body, tbl, dbFail) ==
  IF ~body.readable
  THEN Rejected(InternalServerError("Failed to read webhook body"), tbl)
  ELSE IF ~SignatureValid(secret, signature, body)
  THEN Rejected(UnauthorizedError("Invalid webhook signature"), tbl)
  ELSE IF ~body.json
  THEN Rejected(ValidationError("Invalid webhook payload"), tbl)
  ELSE LET orderID == AsString(Entry(body.order, "id"))
           status == AsString(Entry(body.order, "status"))
           errorMessage == AsString(Entry(body.order, "error"))
       IN IF IsNil(orderID) THEN Rejected(ValidationError("Missing order ID"), tbl)
          ELSE IF IsNil(status) THEN Rejected(ValidationError("Missing status"), tbl)
          ELSE LET call == UpdateCall(body, Val(orderID), Val(status), errorMessage)
                   r == RepoUpdateOrderStatus(tbl, call.orderID, call.status, call.txHash,
                                              call.completedAt, call.errorMessage, dbFail)
               IN IF r.err
                  THEN [err |-> Some(InternalServerError("Failed to update order")),
                        code |-> 0, order |-> Nil, tbl |-> r.tbl,
                        repoCalls |-> <<call>>, providerCalls |-> 0]
                  ELSE [err |-> Nil, code |-> 200, order |-> Nil, tbl |-> r.tbl,
                        repoCalls |-> <<call>>, providerCalls |-> 0]

HandleWebhookHandler(secret, signature, body, tbl, dbFail) ==
  IF secret # "" /\ ~body.readable
  THEN Rejected(InternalServerError("Failed to read webhook body"), tbl)
  ELSE IF secret # "" /\ ~SignatureValid(secret, signature, body)
  THEN Rejected(UnauthorizedError("Invalid webhook signature"), tbl)
  ELSE IF ~body.readable \/ ~body.json
  THEN Rejected(ValidationError("Invalid webhook payload"), tbl)
  ELSE LET orderID == AsString(Entry(body.order, "id"))
           status == AsString(Entry(body.order, "status"))
           errorMessage == AsString(Entry(body.order, "error"))
       IN IF IsNil(orderID) THEN Rejected(ValidationError("Missing order ID"), tbl)
          ELSE IF IsNil(status) THEN Rejected(ValidationError("Missing status"), tbl)
          ELSE LET call == UpdateCall(body, Val(orderID), Val(status), errorMessage)
                   r == RepoUpdateOrderStatus(tbl, call.orderID, call.status, call.txHash,
                                              call.completedAt, call.errorMessage, dbFail)
               IN IF r.err
                  THEN [err |-> Some(InternalServerError("Failed to update order")),
                        code |-> 0, order |-> Nil, tbl |-> r.tbl,
                        repoCalls |-> <<call>>, providerCalls |-> 0]
                  ELSE [err |-> Nil, code |-> 200, order |-> Nil, tbl |-> r.tbl,
                        repoCalls |-> <<call>>, providerCalls |-> 0]

\* body, _ := c.GetRawData(): the bytes that arrived, which are the body, or
\* when the read failed what came before the failure, which is not JSON
Received(body) == IF body.readable THEN body ELSE [body EXCEPT !.readable = TRUE, !.json = FALSE]

\* the middleware VerifyWebhookSignature(secret): 401 written by
\* AbortWithStatusJSON, or code 0 when it restores the body and calls c.Next()
VerifyWebhookSignature(secret, signature, body, tbl) ==
  IF ~SignatureValid(secret, signature, Received(body))
  THEN [err |-> Nil, code |-> 401, order |-> Nil, tbl |-> tbl,
        repoCalls |-> <<>>, providerCalls |-> 0]
  ELSE [err |-> Nil, code |-> 0, order |-> Nil, tbl |-> tbl,
        repoCalls |-> <<>>, providerCalls |-> 0]

\* the HTTP status the caller sees: ErrorHandler's for an error, c.JSON's otherwise
HttpStatus(out) == IF IsNil(out.err) THEN out.code ELSE ErrorHandlerCode(Val(out.err))

(***************************************************************************)
(* Inputs                                                                  *)
(***************************************************************************)
T0 == "2024-01-01T00:00:00Z"
T5 == "2024-01-01T00:05:00Z"
ProviderStatuses == {"pending", "completed", "failed", "unknown", ""}
WebhookStatuses == {"pending", "completed", "failed", "unknown"}
Secrets == {"", "s3cret"}

StarRequest(username, hash, quantity, wallet) ==
  [json |-> TRUE, username |-> username, recipient_hash |-> hash,
   quantity |-> quantity, wallet_type |-> wallet]
PremiumRequest(username, hash, months, wallet) ==
  [json |-> TRUE, username |-> username, recipient_hash |-> hash,
   months |-> months, wallet_type |-> wallet]

ValidStarRequests == {StarRequest("alice", "h1", q, "ton") : q \in {50, 100, 1000000}}
InvalidStarRequests ==
  {StarRequest("alice", "h1", q, "ton") : q \in {-1, 0, 49, 1000001}}
    \cup {StarRequest("", "h1", 100, "ton"), StarRequest("alice", "", 100, "ton"),
          StarRequest("alice", "h1", 100, ""),
          [StarRequest("alice", "h1", 100, "ton") EXCEPT !.json = FALSE]}

ValidPremiumRequests == {PremiumRequest("alice", "h1", m, "ton") : m \in {3, 6, 12}}
InvalidPremiumRequests ==
  {PremiumRequest("alice", "h1", m, "ton") : m \in {0, 1, 5, 13}}
    \cup {PremiumRequest("", "h1", 3, "ton"), PremiumRequest("alice", "", 3, "ton"),
          PremiumRequest("alice", "h1", 3, ""),
          [PremiumRequest("alice", "h1", 3, "ton") EXCEPT !.json = FALSE]}

NoReply == [transport |-> FALSE, code |-> 0, body |-> Nil]
HttpReply(code, body) == [transport |-> FALSE, code |-> code, body |-> body]
FailedReplies ==
  {[transport |-> TRUE, code |-> 0, body |-> Nil]}
    \cup {HttpReply(c, Nil) : c \in {200, 202, 204, 400, 401, 404, 500}}

StarBody(id, status, quantity, created, completed, tx) ==
  [order_id |-> id, status |-> status, username |-> "alice", quantity |-> quantity,
   amount |-> "12.5", created_at |-> created, completed_at |-> completed, tx_hash |-> tx]
PremiumBody(id, status, months, created, completed, tx) ==
  [order_id |-> id, status |-> status, username |-> "alice", months |-> months,
   amount |-> "12.5", created_at |-> created, completed_at |-> completed, tx_hash |-> tx]

\* replies of the provider to a create call: every failure, and both success
\* codes with every body below
StarBodies ==
  {StarBody(id, st, q, cr, co, tx) :
     id \in {U1, "urn:uuid:22222222-2222-2222-2222-222222222222", "not-a-uuid"},
     st \in ProviderStatuses, q \in {100, 250},
     cr \in {"2024-01-01T01:00:00+01:00", "yesterday"},
     co \in {Nil, Some(T5), Some("soon")}, tx \in {Nil, Some("0xabc")}}
PremiumBodies ==
  {PremiumBody(id, st, m, cr, co, tx) :
     id \in {U1, "urn:uuid:22222222-2222-2222-2222-222222222222", "not-a-uuid"},
     st \in ProviderStatuses, m \in {3, 12},
     cr \in {"2024-01-01T01:00:00+01:00", "yesterday"},
     co \in {Nil, Some(T5), Some("soon")}, tx \in {Nil, Some("0xabc")}}
StarReplies == FailedReplies \cup {HttpReply(c, Some(b)) : c \in {200, 202}, b \in StarBodies}
PremiumReplies ==
  FailedReplies \cup {HttpReply(c, Some(b)) : c \in {200, 202}, b \in PremiumBodies}

\* the replies of a provider that works as documented, and one that is down
StarAccepted == {HttpReply(202, Some(StarBody(id, "pending", 250, T0, Nil, Nil))) : id \in {U1, U2}}
StarSettled ==
  {HttpReply(200, Some(StarBody(id, st, 250, T0, Some(T5), Some("0xabc")))) :
     id \in {U1, U2}, st \in {"completed", "unknown"}}
PremiumAccepted ==
  {HttpReply(202, Some(PremiumBody(id, "pending", 3, T0, Nil, Nil))) : id \in {U1, U2}}
PremiumSettled ==
  {HttpReply(200, Some(PremiumBody(id, st, 3, T0, Some(T5), Some("0xabc")))) :
     id \in {U1, U2}, st \in {"completed", "unknown"}}
Down == {HttpReply(500, Nil)}

\* webhook bodies
JString(s) == <<"string", s>>
JNumber(s) == <<"number", s>>
WebhookBody(order, tx, completed) ==
  [readable |-> TRUE, json |-> TRUE, order |-> order, tx_hash |-> tx,
   completed_at |-> completed]
OrderMap(id, status, error) == Some([id |-> id, status |-> status, error |-> error])
Unreadable == [WebhookBody(Nil, Nil, Nil) EXCEPT !.readable = FALSE]
NotJson == [WebhookBody(Nil, Nil, Nil) EXCEPT !.json = FALSE]

WebhookBodies ==
  {Unreadable, NotJson, WebhookBody(Nil, Nil, Nil)}
    \cup {WebhookBody(OrderMap(id, st, er), tx, co) :
            id \in {<<>>, JNumber("7"), JString(U1), JString(U2)},
            st \in {<<>>, JNumber("1")} \cup {JString(x) : x \in ProviderStatuses},
            er \in {<<>>, JString("boom"), JNumber("1")},
            tx \in {Nil, Some("0xabc")},
            co \in {Nil, Some(<<2024, 1, 1, 0, 5, 0>>)}}

\* the deliveries of a provider that works as documented, and two it should not
\* send: an id, a status and the transaction of a completion or the error of a
\* failure; a delivery without id; a delivery without status
ProviderBodies ==
  {WebhookBody(Nil, Nil, Nil), WebhookBody(OrderMap(<<>>, JString("completed"), <<>>), Nil, Nil),
   WebhookBody(OrderMap(JString(U1), <<>>, <<>>), Nil, Nil)}
    \cup {WebhookBody(OrderMap(JString(id), JString(st), ex[3]), ex[1], ex[2]) :
            id \in {U1, U2}, st \in WebhookStatuses,
            ex \in {<<Some("0xabc"), Some(<<2024, 1, 1, 0, 5, 0>>), <<>>>>,
                    <<Nil, Nil, JString("boom")>>}}

\* the body an attacker makes of a signed one
Tamper(body) == [body EXCEPT !.tx_hash = IF @ = Nil THEN Some("0xevil") ELSE Nil]

\* signature headers for a body: none, the right one, one under another secret,
\* one over another body, one over the bytes that arrive when the read fails
Signatures(secret, body) ==
  {<<>>, HexHmac(secret, body), HexHmac("guess", body), HexHmac(secret, Tamper(body)),
   HexHmac(secret, Received(body))}

(***************************************************************************)
(* State machine.  webhookSecret is the configured secret, orders the     *)
(* orders table, last the request handled last: its handler, its inputs,  *)
(* what the handler did, and whether it is the delivery handled just      *)
(* before, delivered again.  inflight holds the requests being handled    *)
(* step by step: the client's configuration, the position of one create   *)
(* request and the positions of the webhook deliveries.                   *)
(***************************************************************************)
EmptyTable == [i \in {} |-> Nil]

Handled(op, req, reply, signature, body, dbFail, out) ==
  [op |-> op, req |-> req, reply |-> reply, signature |-> signature, body |-> body,
   dbFail |-> dbFail, err |-> out.err, code |-> out.code, status |-> HttpStatus(out),
   order |-> out.order, repoCalls |-> out.repoCalls, providerCalls |-> out.providerCalls,
   replay |-> (op = "HandleWebhook" /\ last.op = "HandleWebhook"
                 /\ last.signature = signature /\ last.body = body)]

NoRequest == StarRequest("", "", 0, "")
Booted ==
  [op |-> "boot", req |-> NoRequest, reply |-> NoReply, signature |-> <<>>,
   body |-> NotJson, dbFail |-> FALSE, err |-> Nil, code |-> 0, status |-> 0,
   order |-> Nil, repoCalls |-> <<>>, providerCalls |-> 0, replay |-> FALSE]

\* config.Load: the provider client's timeout, in seconds, and retry count
Load == [Timeout |-> 10, MaxRetries |-> 3]

\* NewIStarClient: the http.Client it builds; a Timeout of 0 would mean none
NewIStarClient(cfg) == [Timeout |-> cfg.Timeout]

\* webhook deliveries handled at the same time
MaxDeliveries == 2

\* a create request: pc is idle, waiting (httpClient.Do is running), replied
\* (Do has returned) or returned (the handler has answered); attempts counts
\* the calls of httpClient.Do, elapsed the seconds of the running call, ended
\* says how it ended: reply or timeout; cancelled says the caller's request
\* was cancelled while the call was running
NoCreate ==
  [op |-> "", pc |-> "idle", req |-> NoRequest, reply |-> NoReply, attempts |-> 0,
   elapsed |-> 0, ended |-> "", cancelled |-> FALSE, err |-> Nil, status |-> 0,
   repoCalls |-> <<>>, stored |-> FALSE]
\* a webhook delivery: pc is idle, received (read, verified and parsed) or done
NoDelivery == [pc |-> "idle", body |-> NotJson, status |-> 0]
Idle ==
  [cfg |-> Load, create |-> NoCreate, hooks |-> [k \in 1..MaxDeliveries |-> NoDelivery]]

\* POST /orders/star
CreateStarGiftAsync(Requests, Replies, DbFails) ==
  \E raw \in Requests :
    \E reply \in (IF BindStarRequest(raw) THEN Replies ELSE {NoReply}) :
      \E dbFail \in (IF CreateStarGiftAsyncHandler(raw, reply, orders, FALSE).repoCalls = <<>>
                     THEN {FALSE} ELSE DbFails) :
        LET out == CreateStarGiftAsyncHandler(raw, reply, orders, dbFail) IN
        /\ orders' = out.tbl
        /\ last' = Handled("CreateStarGiftAsync", raw, reply, <<>>, NotJson, dbFail, out)
        /\ UNCHANGED <<webhookSecret, inflight>>

\* POST /orders/star/sync
CreateStarGiftSync(Requests, Replies, DbFails) ==
  \E raw \in Requests :
    \E reply \in (IF BindStarRequest(raw) THEN Replies ELSE {NoReply}) :
      \E dbFail \in (IF CreateStarGiftSyncHandler(raw, reply, orders, FALSE).repoCalls = <<>>
                     THEN {FALSE} ELSE DbFails) :
        LET out == CreateStarGiftSyncHandler(raw, reply, orders, dbFail) IN
        /\ orders' = out.tbl
        /\ last' = Handled("CreateStarGiftSync", raw, reply, <<>>, NotJson, dbFail, out)
        /\ UNCHANGED <<webhookSecret, inflight>>

\* POST /orders/premium
CreatePremiumGiftAsync(Requests, Replies, DbFails) ==
  \E raw \in Requests :
    \E reply \in (IF BindPremiumRequest(raw) THEN Replies ELSE {NoReply}) :
      \E dbFail \in (IF CreatePremiumGiftAsyncHandler(raw, reply, orders, FALSE).repoCalls = <<>>
                     THEN {FALSE} ELSE DbFails) :
        LET out == CreatePremiumGiftAsyncHandler(raw, reply, orders, dbFail) IN
        /\ orders' = out.tbl
        /\ last' = Handled("CreatePremiumGiftAsync", raw, reply, <<>>, NotJson, dbFail, out)
        /\ UNCHANGED <<webhookSecret, inflight>>

\* POST /orders/premium/sync
CreatePremiumGiftSync(Requests, Replies, DbFails) ==
  \E raw \in Requests :
    \E reply \in (IF BindPremiumRequest(raw) THEN Replies ELSE {NoReply}) :
      \E dbFail \in (IF CreatePremiumGiftSyncHandler(raw, reply, orders, FALSE).repoCalls = <<>>
                     THEN {FALSE} ELSE DbFails) :
        LET out == CreatePremiumGiftSyncHandler(raw, reply, orders, dbFail) IN
        /\ orders' = out.tbl
        /\ last' = Handled("CreatePremiumGiftSync", raw, reply, <<>>, NotJson, dbFail, out)
        /\ UNCHANGED <<webhookSecret, inflight>>

\* POST /webhooks/istar; a delivery is <<signature, body>>
HandleWebhook(Deliveries, DbFails) ==
  \E d \in Deliveries :
    \E dbFail \in (IF HandleWebhookHandler(webhookSecret, d[1], d[2], orders,
                                           FALSE).repoCalls = <<>>
                   THEN {FALSE} ELSE DbFails) :
      LET out == HandleWebhookHandler(webhookSecret, d[1], d[2], orders, dbFail) IN
      /\ orders' = out.tbl
      /\ last' = Handled("HandleWebhook", NoRequest, NoReply, d[1], d[2], dbFail, out)
      /\ UNCHANGED <<webhookSecret, inflight>>

\* a delivery passing through the middleware VerifyWebhookSignature(webhookSecret)
VerifySignature(Deliveries) ==
  \E d \in Deliveries :
    LET out == VerifyWebhookSignature(webhookSecret, d[1], d[2], orders) IN
    /\ orders' = out.tbl
    /\ last' = Handled("VerifyWebhookSignature", NoRequest, NoReply, d[1], d[2], FALSE, out)
    /\ UNCHANGED <<webhookSecret, inflight>>

(***************************************************************************)
(* The pass-through handlers: recipient search, premium packages, wallet   *)
(* balance.  A query parameter read by strconv.Atoi is the sequence of its *)
(* characters.                                                             *)
(***************************************************************************)
DigitChars == <<"0", "1", "2", "3", "4", "5", "6", "7", "8", "9">>
IsDigit(ch) == \E d \in 1..Len(DigitChars) : DigitChars[d] = ch
DigitOf(ch) == (CHOOSE d \in 1..Len(DigitChars) : DigitChars[d] = ch) - 1

RECURSIVE Decimal(_)
Decimal(s) ==
  IF s = <<>> THEN 0 ELSE Decimal(SubSeq(s, 1, Len(s) - 1)) * 10 + DigitOf(s[Len(s)])

\* strconv.Atoi(s): the value of an optional sign and decimal digits, or an error
Atoi(s) ==
  LET signed == s # <<>> /\ s[1] \in {"+", "-"}
      digits == IF signed THEN Tail(s) ELSE s
  IN IF digits = <<>> \/ \E i \in 1..Len(digits) : ~IsDigit(digits[i])
     THEN [err |-> TRUE, value |-> 0]
     ELSE [err |-> FALSE,
           value |-> IF signed /\ s[1] = "-" THEN 0 - Decimal(digits) ELSE Decimal(digits)]

\* IStarClient.DoRequest: the provider's response whatever its status code,
\* or the plain error of a request that could not be sent
DoRequest(reply) ==
  IF reply.transport THEN [err |-> Some(TransportError), resp |-> Nil]
  ELSE [err |-> Nil, resp |-> Some(reply)]

\* the error of encoding/json on a value it cannot encode
RenderError == [api |-> FALSE, code |-> 0, message |-> "json: unsupported type"]

\* resp, err := DoRequest(...); c.Error(err) or c.JSON(http.StatusOK, resp),
\* the tail the four handlers share.  rendered tells whether encoding/json
\* took the *http.Response; when it did not gin records or panics with the
\* error and the caller gets 500.
PassThrough(reply, rendered, tbl) ==
  LET r == DoRequest(reply) IN
  IF ~IsNil(r.err)
  THEN [err |-> r.err, code |-> 0, order |-> Nil, tbl |-> tbl,
        repoCalls |-> <<>>, providerCalls |-> 1]
  ELSE IF rendered
  THEN [err |-> Nil, code |-> 200, order |-> Nil, tbl |-> tbl,
        repoCalls |-> <<>>, providerCalls |-> 1]
  ELSE [err |-> Some(RenderError), code |-> 0, order |-> Nil, tbl |-> tbl,
        repoCalls |-> <<>>, providerCalls |-> 1]

\* the query of GET /star/recipient/search is rejected before the provider is called
StarQueryInvalid(query) ==
  \/ query.username = "" \/ query.quantity = <<>>
  \/ Atoi(query.quantity).err
  \/ Atoi(query.quantity).value < 50 \/ Atoi(query.quantity).value > 1000000

PremiumQueryInvalid(query) ==
  \/ query.username = "" \/ query.months = <<>>
  \/ Atoi(query.months).err \/ ~isValidMonths(Atoi(query.months).value)

SearchStarRecipientHandler(query, reply, rendered, tbl) ==
  IF query.username = "" \/ query.quantity = <<>>
  THEN Rejected(ValidationError("Missing username or quantity"), tbl)
  ELSE IF StarQueryInvalid(query)
  THEN Rejected(ValidationError("Quantity must be between 50 and 1,000,000"), tbl)
  ELSE PassThrough(reply, rendered, tbl)

SearchPremiumRecipientHandler(query, reply, rendered, tbl) ==
  IF query.username = "" \/ query.months = <<>>
  THEN Rejected(ValidationError("Missing username or months"), tbl)
  ELSE IF PremiumQueryInvalid(query)
  THEN Rejected(ValidationError("Months must be 3, 6, or 12"), tbl)
  ELSE PassThrough(reply, rendered, tbl)

GetPremiumPackagesHandler(reply, rendered, tbl) == PassThrough(reply, rendered, tbl)
GetWalletBalanceHandler(reply, rendered, tbl) == PassThrough(reply, rendered, tbl)

\* queries: user names, and the characters of quantity and months
StarQueries ==
  {[username |-> u, quantity |-> q] :
     u \in {"", "alice"},
     q \in {<<>>, <<"a", "b">>, <<"5", "0", "x">>, <<"-", "5", "0">>, <<"4", "9">>,
            <<"5", "0">>, <<"+", "5", "0">>, <<"1", "0", "0", "0", "0", "0", "0">>,
            <<"1", "0", "0", "0", "0", "0", "1">>}}
PremiumQueries ==
  {[username |-> u, months |-> m] :
     u \in {"", "alice"},
     m \in {<<>>, <<"x">>, <<"-">>, <<"3">>, <<"5">>, <<"6">>, <<"1", "2">>, <<"1", "3">>}}
\* replies to a pass-through call: a failure to send, and each status code
PassThroughReplies == FailedReplies

\* GET /star/recipient/search
SearchStarRecipient ==
  \E query \in StarQueries :
    \E reply \in (IF StarQueryInvalid(query) THEN {NoReply} ELSE PassThroughReplies) :
      \E rendered \in (IF StarQueryInvalid(query) \/ reply.transport THEN {TRUE} ELSE BOOLEAN) :
        LET out == SearchStarRecipientHandler(query, reply, rendered, orders) IN
        /\ orders' = out.tbl
        /\ last' = Handled("SearchStarRecipient", query, reply, <<>>, NotJson, FALSE, out)
        /\ UNCHANGED <<webhookSecret, inflight>>

\* GET /premium/recipient/search
SearchPremiumRecipient ==
  \E query \in PremiumQueries :
    \E reply \in (IF PremiumQueryInvalid(query) THEN {NoReply} ELSE PassThroughReplies) :
      \E rendered \in (IF PremiumQueryInvalid(query) \/ reply.transport
                       THEN {TRUE} ELSE BOOLEAN) :
        LET out == SearchPremiumRecipientHandler(query, reply, rendered, orders) IN
        /\ orders' = out.tbl
        /\ last' = Handled("SearchPremiumRecipient", query, reply, <<>>, NotJson, FALSE, out)
        /\ UNCHANGED <<webhookSecret, inflight>>

\* GET /premium/packages
GetPremiumPackages ==
  \E reply \in PassThroughReplies :
    \E rendered \in (IF reply.transport THEN {TRUE} ELSE BOOLEAN) :
      LET out == GetPremiumPackagesHandler(reply, rendered, orders) IN
      /\ orders' = out.tbl
      /\ last' = Handled("GetPremiumPackages", NoRequest, reply, <<>>, NotJson, FALSE, out)
      /\ UNCHANGED <<webhookSecret, inflight>>

\* GET /wallet/balance
GetWalletBalance ==
  \E reply \in PassThroughReplies :
    \E rendered \in (IF reply.transport THEN {TRUE} ELSE BOOLEAN) :
      LET out == GetWalletBalanceHandler(reply, rendered, orders) IN
      /\ orders' = out.tbl
      /\ last' = Handled("GetWalletBalance", NoRequest, reply, <<>>, NotJson, FALSE, out)
      /\ UNCHANGED <<webhookSecret, inflight>>

Forged == WebhookBody(OrderMap(JString(U1), JString("completed"), <<>>), Some("0xabc"), Nil)

\* The gateway in service: requests and deliveries in any order, against a
\* provider that answers as documented or is down, and a database that is up.
\* Deliveries carry the right signature, but for one forged without the secret.
Init ==
  /\ webhookSecret = "s3cret"
  /\ orders = EmptyTable
  /\ last = Booted
  /\ inflight = Idle

Next ==
  \/ CreateStarGiftAsync({StarRequest("alice", "h1", 100, "ton")}, StarAccepted \cup Down, {FALSE})
  \/ CreateStarGiftSync({StarRequest("alice", "h1", 100, "ton")}, StarSettled \cup Down, {FALSE})
  \/ CreatePremiumGiftAsync({PremiumRequest("alice", "h1", 3, "ton")},
                            PremiumAccepted \cup Down, {FALSE})
  \/ CreatePremiumGiftSync({PremiumRequest("alice", "h1", 3, "ton")},
                           PremiumSettled \cup Down, {FALSE})
  \/ HandleWebhook({<<HexHmac(webhookSecret, b), b>> : b \in ProviderBodies}
                     \cup {<<sg, Forged>> : sg \in Signatures(webhookSecret, Forged) \
                                                     {HexHmac(webhookSecret, Forged)}},
                   {FALSE})

Spec == Init /\ [][Next]_vars

\* One request against a table the gateway can hold, with every input of the
\* sets above: any request, any reply, any delivery, the database up or down.
TableOne ==
  CreateStarOrderAsync(StarRequest("alice", "h1", 100, "ton"),
                       HttpReply(202, Some(StarBody(U1, "pending", 250, T0, Nil, Nil))),
                       EmptyTable, FALSE).tbl
TableTwo ==
  CreatePremiumOrderSync(PremiumRequest("alice", "h1", 3, "ton"),
                         HttpReply(200, Some(PremiumBody(U2, "completed", 3, T0, Some(T5),
                                                         Some("0xabc")))),
                         TableOne, FALSE).tbl

InitIO ==
  /\ webhookSecret \in Secrets
  /\ orders \in {EmptyTable, TableOne, TableTwo}
  /\ last = Booted
  /\ inflight = Idle

NextIO ==
  /\ last.op = "boot"
  /\ \/ CreateStarGiftAsync(ValidStarRequests \cup InvalidStarRequests, StarReplies, BOOLEAN)
     \/ CreateStarGiftSync(ValidStarRequests \cup InvalidStarRequests, StarReplies, BOOLEAN)
     \/ CreatePremiumGiftAsync(ValidPremiumRequests \cup InvalidPremiumRequests,
                               PremiumReplies, BOOLEAN)
     \/ CreatePremiumGiftSync(ValidPremiumRequests \cup InvalidPremiumRequests,
                              PremiumReplies, BOOLEAN)
     \/ HandleWebhook(UNION {{<<sg, b>> : sg \in Signatures(webhookSecret, b)} :
                                b \in WebhookBodies}, BOOLEAN)
     \/ VerifySignature(UNION {{<<sg, b>> : sg \in Signatures(webhookSecret, b)} :
                                  b \in WebhookBodies})
     \/ SearchStarRecipient
     \/ SearchPremiumRecipient
     \/ GetPremiumPackages
     \/ GetWalletBalance

SpecIO == InitIO /\ [][NextIO]_vars

(***************************************************************************)
(* middleware: APIKeyAuth                                                  *)
(* A Go string is its sequence of bytes, numbers in 0..255.               *)
(***************************************************************************)
\* a[i] ^ b[i] and result | x on bytes
RECURSIVE BitXor(_, _)
BitXor(a, b) ==
  IF a = 0 /\ b = 0 THEN 0
  ELSE (((a % 2) + (b % 2)) % 2) + 2 * BitXor(a \div 2, b \div 2)
RECURSIVE BitOr(_, _)
BitOr(a, b) ==
  IF a = 0 /\ b = 0 THEN 0
  ELSE (IF a % 2 = 1 \/ b % 2 = 1 THEN 1 ELSE 0) + 2 * BitOr(a \div 2, b \div 2)

\* the loop of subtleConstantTimeCompare over the first n bytes: result
RECURSIVE Accumulate(_, _, _)
Accumulate(a, b, n) ==
  IF n = 0 THEN 0 ELSE BitOr(Accumulate(a, b, n - 1), BitXor(a[n], b[n]))

\* subtleConstantTimeCompare keeping only the difference of the last byte
\* (result = instead of result |=)
subtleConstantTimeCompareLastByte(a, b) ==
  IF Len(a) # Len(b) THEN FALSE
  ELSE IF Len(a) = 0 THEN TRUE
  ELSE BitXor(a[Len(a)], b[Len(a)]) = 0

subtleConstantTimeCompare(a, b) ==
  IF Len(a) # Len(b) THEN FALSE
  ELSE Accumulate(a, b, Len(a)) = 0

isValidAPIKey(inputKey, validKey) ==
  IF inputKey = <<>> \/ validKey = <<>> THEN FALSE
  ELSE subtleConstantTimeCompare(inputKey, validKey)

\* strings.TrimSpace on ASCII: leading and trailing white space removed
WhiteSpace == {9, 10, 11, 12, 13, 32}
RECURSIVE TrimLeft(_)
TrimLeft(s) == IF s # <<>> /\ Head(s) \in WhiteSpace THEN TrimLeft(Tail(s)) ELSE s
RECURSIVE TrimRight(_)
TrimRight(s) ==
  IF s # <<>> /\ s[Len(s)] \in WhiteSpace THEN TrimRight(SubSeq(s, 1, Len(s) - 1)) ELSE s
TrimSpace(s) == TrimRight(TrimLeft(s))

\* GetAPIKey returning the header as it came, untrimmed
GetAPIKeyUntrimmed(header) == header

GetAPIKey(header) == TrimSpace(header)

\* the middleware on a request whose API-Key header is header: the status it
\* aborts with and the code it reports, or next = TRUE when it calls c.Next().
\* hasLogger tells whether an earlier middleware stored a *zap.Logger under
\* "logger": without it c.MustGet panics, which gin's Recovery answers with 500.
APIKeyAuth(validKey, header, hasLogger) ==
  LET apiKey == GetAPIKey(header) IN
  IF ~hasLogger THEN [next |-> FALSE, status |-> 500, code |-> "panic"]
  ELSE IF apiKey = <<>> THEN [next |-> FALSE, status |-> 401, code |-> "MISSING_API_KEY"]
  ELSE IF ~isValidAPIKey(apiKey, validKey)
  THEN [next |-> FALSE, status |-> 401, code |-> "INVALID_API_KEY"]
  ELSE [next |-> TRUE, status |-> 0, code |-> ""]

\* keys and headers: byte strings of at most MaxKeyLen bytes
MaxKeyLen == 3
KeyBytes == {32, 65, 97, 98}
Strings(bytes) == UNION {[1..n -> bytes] : n \in 0..MaxKeyLen}

\* isValidAPIKey applied to a pair of strings
CheckKey ==
  \E inputKey \in Strings(KeyBytes), validKey \in Strings(KeyBytes) :
    /\ last' = [op |-> "isValidAPIKey", header |-> inputKey, inputKey |-> inputKey,
                validKey |-> validKey, valid |-> isValidAPIKey(inputKey, validKey),
                logger |-> TRUE, next |-> FALSE, status |-> 0, code |-> ""]
    /\ UNCHANGED <<webhookSecret, orders, inflight>>

\* a request passing through APIKeyAuth(validKey)
Authenticate ==
  \E header \in Strings(KeyBytes), validKey \in Strings(KeyBytes \ {32}),
     hasLogger \in BOOLEAN :
    LET out == APIKeyAuth(validKey, header, hasLogger) IN
    /\ last' = [op |-> "APIKeyAuth", header |-> header, inputKey |-> GetAPIKey(header),
                validKey |-> validKey, valid |-> out.next, logger |-> hasLogger,
                next |-> out.next, status |-> out.status, code |-> out.code]
    /\ UNCHANGED <<webhookSecret, orders, inflight>>

InitAuth ==
  /\ webhookSecret = ""
  /\ orders = EmptyTable
  /\ last = [op |-> "boot", header |-> <<>>, inputKey |-> <<>>, validKey |-> <<>>,
             valid |-> FALSE, logger |-> TRUE, next |-> FALSE, status |-> 0, code |-> ""]
  /\ inflight = Idle

\* one call of either, on every pair of strings
NextAuth == last.op = "boot" /\ (CheckKey \/ Authenticate)

SpecAuth == InitAuth /\ [][NextAuth]_vars

(***************************************************************************)
(* Requests handled at the same time.  One create request runs in steps:   *)
(* it is sent, waits in httpClient.Do while the seconds pass, gets the     *)
(* provider's reply or the timeout of the http.Client, and then runs the   *)
(* rest of the handler; the caller may go away meanwhile.  Once the        *)
(* provider accepted an asynchronous order it delivers webhooks about it,  *)
(* each handled in two steps: received, then the UPDATE and the answer.    *)
(***************************************************************************)
CreateHandler(op, raw, reply, tbl, dbFail) ==
  CASE op = "CreateStarGiftAsync" -> CreateStarGiftAsyncHandler(raw, reply, tbl, dbFail)
    [] op = "CreateStarGiftSync" -> CreateStarGiftSyncHandler(raw, reply, tbl, dbFail)
    [] op = "CreatePremiumGiftAsync" -> CreatePremiumGiftAsyncHandler(raw, reply, tbl, dbFail)
    [] op = "CreatePremiumGiftSync" -> CreatePremiumGiftSyncHandler(raw, reply, tbl, dbFail)

\* the request of each create operation, and the replies of the provider to it
RaceRequest(op) ==
  IF op \in {"CreateStarGiftAsync", "CreateStarGiftSync"}
  THEN StarRequest("alice", "h1", 100, "ton") ELSE PremiumRequest("alice", "h1", 3, "ton")
Accepting(op) ==
  CASE op = "CreateStarGiftAsync" -> {r \in StarAccepted : Val(r.body).order_id = U1}
    [] op = "CreateStarGiftSync" -> {r \in StarSettled : Val(r.body).order_id = U1}
    [] op = "CreatePremiumGiftAsync" -> {r \in PremiumAccepted : Val(r.body).order_id = U1}
    [] op = "CreatePremiumGiftSync" -> {r \in PremiumSettled : Val(r.body).order_id = U1}
    [] OTHER -> {}
RaceReplies(op) == Accepting(op) \cup FailedReplies
SendFailure == [transport |-> TRUE, code |-> 0, body |-> Nil]

\* the webhooks the provider sends about order id
RaceBodies(id) ==
  {WebhookBody(OrderMap(JString(id), JString("completed"), <<>>), Some("0xabc"),
               Some(<<2024, 1, 1, 0, 5, 0>>)),
   WebhookBody(OrderMap(JString(id), JString("failed"), JString("boom")), Nil, Nil),
   WebhookBody(OrderMap(JString(id), JString("pending"), <<>>), Some("0xabc"), Nil),
   WebhookBody(OrderMap(JString(id), JString("unknown"), <<>>), Nil, Nil)}

\* the handler calls the client method, and DoRequest calls httpClient.Do
StartCreate ==
  \E op \in {"CreateStarGiftAsync", "CreateStarGiftSync", "CreatePremiumGiftAsync",
             "CreatePremiumGiftSync"} :
    /\ inflight.create.pc = "idle"
    /\ inflight' = [inflight EXCEPT !.create =
                      [@ EXCEPT !.op = op, !.pc = "waiting", !.req = RaceRequest(op),
                                !.attempts = 1]]
    /\ UNCHANGED <<webhookSecret, orders, last>>

\* a second passes while httpClient.Do waits for the provider
Tick ==
  /\ inflight.create.pc = "waiting"
  /\ NewIStarClient(inflight.cfg).Timeout > 0
  /\ inflight.create.elapsed < NewIStarClient(inflight.cfg).Timeout
  /\ inflight' = [inflight EXCEPT !.create.elapsed = @ + 1]
  /\ UNCHANGED <<webhookSecret, orders, last>>

\* DoRequest calling httpClient.Do again after a failure, while retries are left
ResendWhileRetriesLeft(cfg, attempts, reply) == reply.transport /\ attempts <= cfg.MaxRetries
\* DoRequest calls httpClient.Do once and returns what it got
Resend(cfg, attempts, reply) == FALSE

\* httpClient.Do returns reply; how is reply or timeout
DoReturns(reply, how) ==
  /\ inflight.create.pc = "waiting"
  /\ inflight' = [inflight EXCEPT !.create =
                    IF Resend(inflight.cfg, @.attempts, reply)
                    THEN [@ EXCEPT !.attempts = @ + 1, !.elapsed = 0]
                    ELSE [@ EXCEPT !.pc = "replied", !.reply = reply, !.ended = how]]
  /\ UNCHANGED <<webhookSecret, orders, last>>

\* the provider answers, or the connection fails
ProviderReplies == \E reply \in RaceReplies(inflight.create.op) : DoReturns(reply, "reply")

\* the Timeout of the http.Client has passed
TimeoutFires ==
  /\ NewIStarClient(inflight.cfg).Timeout > 0
  /\ inflight.create.elapsed = NewIStarClient(inflight.cfg).Timeout
  /\ DoReturns(SendFailure, "timeout")

\* the caller went away: c.Request.Context() is cancelled.  The create
\* handlers hand the orchestrator the gin.Context itself, whose Done() is nil
\* on an engine built by gin.Default(), so httpClient.Do goes on waiting.
CallerCancels ==
  /\ inflight.create.pc = "waiting" /\ ~inflight.create.cancelled
  /\ inflight' = [inflight EXCEPT !.create.cancelled = TRUE]
  /\ UNCHANGED <<webhookSecret, orders, last>>

\* the rest of the handler: the client's reading of the reply, the
\* orchestrator, CreateOrder and the answer to the caller
FinishCreate ==
  /\ inflight.create.pc = "replied"
  /\ LET c == inflight.create
         out == CreateHandler(c.op, c.req, c.reply, orders, FALSE)
     IN /\ orders' = out.tbl
        /\ inflight' = [inflight EXCEPT !.create =
                          [@ EXCEPT !.pc = "returned", !.err = out.err,
                                    !.status = HttpStatus(out), !.repoCalls = out.repoCalls,
                                    !.stored = (out.tbl # orders)]]
  /\ UNCHANGED <<webhookSecret, last>>

\* the provider accepted the asynchronous order of the create request
Accepted ==
  /\ inflight.create.op \in {"CreateStarGiftAsync", "CreatePremiumGiftAsync"}
  /\ inflight.create.pc \in {"replied", "returned"}
  /\ inflight.create.reply \in Accepting(inflight.create.op)

\* HandleWebhookHandler up to the call of UpdateOrderStatus: delivery k, with
\* the right signature, is read, verified and parsed
ReceiveWebhook ==
  /\ Accepted
  /\ \E k \in 1..MaxDeliveries :
       \E body \in RaceBodies(Val(inflight.create.reply.body).order_id) :
         /\ inflight.hooks[k].pc = "idle"
         /\ IF k = 1 THEN TRUE ELSE inflight.hooks[k - 1].pc # "idle"
         /\ HandleWebhookHandler(webhookSecret, HexHmac(webhookSecret, body), body,
                                 EmptyTable, FALSE).repoCalls # <<>>
         /\ inflight' = [inflight EXCEPT !.hooks[k] =
                           [@ EXCEPT !.pc = "received", !.body = body]]
  /\ UNCHANGED <<webhookSecret, orders, last>>

\* HandleWebhookHandler from UpdateOrderStatus on: the UPDATE, and the answer
UpdateFromWebhook ==
  \E k \in 1..MaxDeliveries :
    /\ inflight.hooks[k].pc = "received"
    /\ LET body == inflight.hooks[k].body
           out == HandleWebhookHandler(webhookSecret, HexHmac(webhookSecret, body), body,
                                       orders, FALSE)
       IN /\ orders' = out.tbl
          /\ inflight' = [inflight EXCEPT !.hooks[k] =
                            [@ EXCEPT !.pc = "done", !.status = HttpStatus(out)]]
    /\ UNCHANGED <<webhookSecret, last>>

\* the gateway with the database up, the client configured by Load but for
\* the retry count, which is any of the values below
RetryCounts == {0, Load.MaxRetries}
InitRace ==
  /\ webhookSecret = "s3cret"
  /\ orders = EmptyTable
  /\ last = Booted
  /\ inflight \in {[Idle EXCEPT !.cfg.MaxRetries = m] : m \in RetryCounts}

NextCreate ==
  \/ StartCreate
  \/ Tick
  \/ ProviderReplies
  \/ TimeoutFires
  \/ CallerCancels
  \/ FinishCreate

NextRace ==
  \/ NextCreate
  \/ ReceiveWebhook
  \/ UpdateFromWebhook

SpecRace == InitRace /\ [][NextRace]_vars

\* One create request alone.  Time passes, the http.Client's timer fires and
\* the handler's goroutine goes on running; the provider need not answer.
SpecTimeout ==
  /\ InitRace /\ [][NextCreate]_vars
  /\ WF_vars(Tick) /\ WF_vars(TimeoutFires) /\ WF_vars(FinishCreate)

(***************************************************************************)
(* Properties                                                              *)
(***************************************************************************)
Terminal(st) == st = StatusCompleted \/ st = StatusFailed

\* C1: once an order's stored status is completed or failed, no create call
\* and no webhook delivery changes that status.
C1_TerminalNeverLeft ==
  [][\A i \in DOMAIN orders :
       Terminal(orders[i].status) =>
         i \in DOMAIN orders' /\ orders'[i].status = orders[i].status]_vars

\* C2: the status of every order in the table is pending, completed or failed.
C2_StatusInEnum == \A i \in DOMAIN orders : orders[i].status \in OrderStatusEnum

CreateOps ==
  {"CreateStarGiftAsync", "CreateStarGiftSync", "CreatePremiumGiftAsync", "CreatePremiumGiftSync"}
StarOps == {"CreateStarGiftAsync", "CreateStarGiftSync"}
SyncOps == {"CreateStarGiftSync", "CreatePremiumGiftSync"}

\* the field constraints of a create request
StarFieldsValid(req) ==
  /\ req.username # "" /\ req.recipient_hash # "" /\ req.wallet_type # ""
  /\ req.quantity \in 50..1000000
PremiumFieldsValid(req) ==
  /\ req.username # "" /\ req.recipient_hash # "" /\ req.wallet_type # ""
  /\ req.months \in {3, 6, 12}
FieldsValid(op, req) == IF op \in StarOps THEN StarFieldsValid(req) ELSE PremiumFieldsValid(req)

\* a reply with the given code and a body that decodes, with an RFC 3339
\* created_at and a UUID as order_id
WellFormedReply(reply, code) ==
  /\ ~reply.transport /\ reply.code = code /\ ~IsNil(reply.body)
  /\ ~IsNil(ParseRFC3339(Val(reply.body).created_at))
  /\ ~IsNil(UuidParse(Val(reply.body).order_id))

\* the Order handed to CreateOrder by the request handled last
Built == last.repoCalls[1].order
SaveFailed == Some(InternalServerError("Failed to save order"))

\* C3: a valid star request answered 202 with a well-formed body builds an
\* Order with status pending, whatever the body's status, and the quantity the
\* provider reported; a valid premium request likewise one with status pending
\* and the months the provider reported; that Order is handed to the store and,
\* when the store takes it, returned with 202.
C3_AsyncPending ==
  (/\ last.op \in {"CreateStarGiftAsync", "CreatePremiumGiftAsync"}
   /\ last.req.json /\ FieldsValid(last.op, last.req)
   /\ WellFormedReply(last.reply, 202))
  => /\ Len(last.repoCalls) = 1
     /\ Built.Status = StatusPending
     /\ last.op = "CreateStarGiftAsync" =>
          Built.Quantity = Some(Val(last.reply.body).quantity) /\ IsNil(Built.Months)
     /\ last.op = "CreatePremiumGiftAsync" =>
          Built.Months = Some(Val(last.reply.body).months) /\ IsNil(Built.Quantity)
     /\ IF IsNil(last.err)
        THEN last.order = Some(Built) /\ last.status = 202
        ELSE last.err = SaveFailed /\ IsNil(last.order)

\* C3 witness: a star order is returned pending although the provider said
\* completed, with the provider's quantity and not the requested one.
C3_Witness ==
  /\ last.op = "CreateStarGiftAsync" /\ IsNil(last.err) /\ last.status = 202
  /\ Val(last.reply.body).status = "completed"
  /\ Val(last.reply.body).quantity # last.req.quantity
  /\ Val(last.order).Status = StatusPending
  /\ Val(last.order).Quantity = Some(Val(last.reply.body).quantity)

\* C4: a sync create builds an Order whose status is the provider's when that
\* is completed or failed and failed for every other value; no sync create
\* returns or stores an Order that is pending or outside the enumeration.
C4_SyncCoerced ==
  last.op \in SyncOps =>
    /\ last.repoCalls # <<>> =>
         LET st == Val(last.reply.body).status IN
         /\ Built.Status = IF st \in {"completed", "failed"} THEN st ELSE "failed"
         /\ IsNil(last.err) =>
              /\ last.order = Some(Built)
              /\ orders[Built.ID].status = Built.Status
    /\ ~IsNil(last.order) =>
         /\ last.repoCalls # <<>>
         /\ Val(last.order).Status \in {"completed", "failed"}

\* C4 witness: the provider answered a sync create with pending and the Order
\* returned and stored is failed.
C4_Witness ==
  /\ last.op \in SyncOps /\ IsNil(last.err)
  /\ Val(last.reply.body).status = "pending"
  /\ Val(last.order).Status = "failed"
  /\ orders[Val(last.order).ID].status = "failed"

\* C5: a create request that violates a field constraint is answered with a
\* validation error, 400, and makes no call to the provider or the store.
C5_InvalidRejected ==
  (last.op \in CreateOps /\ ~FieldsValid(last.op, last.req))
  => /\ last.err # Nil /\ Val(last.err).api /\ Val(last.err).code = 400
     /\ last.status = 400
     /\ last.providerCalls = 0
     /\ last.repoCalls = <<>>
     /\ IsNil(last.order)

\* C5 witness: a premium request for 5 months was answered 400.
C5_Witness ==
  /\ last.op = "CreatePremiumGiftAsync" /\ last.req.json /\ last.req.months = 5
  /\ last.req.username # "" /\ last.status = 400 /\ last.providerCalls = 0

\* what makes a delivery reach the payload: its body read and bound, and its
\* signature the HMAC of the body when a secret is configured
Bound(l) == l.op = "HandleWebhook" /\ l.body.readable /\ l.body.json
Signed(l) == l.signature = HexHmac(webhookSecret, l.body)
Authentic(l) == webhookSecret = "" \/ Signed(l)
NotAString(v) == v = <<>> \/ v[1] # "string"
OrderEntry(l, key) == IF IsNil(l.body.order) THEN <<>> ELSE Val(l.body.order)[key]

\* C6: a delivery that reaches the payload and whose order sub-object lacks
\* id or status, or carries either as a non-string, is answered with a
\* validation error, makes no call to the store and leaves the table as it was.
C6_MissingFieldsRejected ==
  [][(/\ Bound(last') /\ Authentic(last')
      /\ NotAString(OrderEntry(last', "id")) \/ NotAString(OrderEntry(last', "status")))
     => /\ last'.err # Nil /\ Val(last'.err).api /\ Val(last'.err).code = 400
        /\ last'.status = 400
        /\ last'.repoCalls = <<>>
        /\ orders' = orders]_vars

\* C6 witness: a signed delivery for a stored order, with a number as status,
\* was answered 400.
C6_Witness ==
  /\ Bound(last) /\ Signed(last) /\ webhookSecret # ""
  /\ OrderEntry(last, "id") = JString(U1) /\ U1 \in DOMAIN orders
  /\ OrderEntry(last, "status") = JNumber("1")
  /\ last.status = 400

\* C7: with a secret configured, a delivery whose signature header is not the
\* hex HMAC-SHA256 of its body under the secret, or is missing, is answered
\* unauthorized, makes no call to the store and leaves the table as it was.
C7_BadSignatureRejected ==
  [][(/\ last'.op = "HandleWebhook" /\ last'.body.readable
      /\ webhookSecret # "" /\ ~Signed(last'))
     => /\ last'.err # Nil /\ Val(last'.err).api /\ Val(last'.err).code = 401
        /\ last'.status = 401
        /\ last'.repoCalls = <<>>
        /\ orders' = orders]_vars

\* C7 witness: a delivery without signature header, otherwise complete and for
\* a stored pending order, was answered 401.
C7_Witness ==
  /\ Bound(last) /\ webhookSecret # "" /\ last.signature = <<>>
  /\ OrderEntry(last, "id") = JString(U1) /\ U1 \in DOMAIN orders
  /\ OrderEntry(last, "status") = JString("completed")
  /\ orders[U1].status = "pending"
  /\ last.status = 401

\* C8: a signed delivery {order: {id, status: "completed"}, tx_hash: "0xabc"}
\* makes exactly one UpdateOrderStatus call, for that id, with status completed
\* and txHash "0xabc"; it is answered 200 when the store succeeds, and then a
\* stored order of that id is completed with that txHash, and with an internal
\* error when the store fails.
C8_CompletedDelivery ==
  (/\ Bound(last) /\ Signed(last)
   /\ ~NotAString(OrderEntry(last, "id"))
   /\ OrderEntry(last, "status") = JString("completed")
   /\ last.body.tx_hash = Some("0xabc"))
  => LET id == OrderEntry(last, "id")[2] IN
     /\ Len(last.repoCalls) = 1
     /\ last.repoCalls[1].method = "UpdateOrderStatus"
     /\ last.repoCalls[1].orderID = id
     /\ last.repoCalls[1].status = StatusCompleted
     /\ last.repoCalls[1].txHash = Some("0xabc")
     /\ IF last.dbFail
        THEN last.err = Some(InternalServerError("Failed to update order")) /\ last.status = 500
        ELSE /\ IsNil(last.err) /\ last.status = 200
             /\ id \in DOMAIN orders =>
                  orders[id].status = StatusCompleted /\ orders[id].tx_hash = Some("0xabc")

\* C8 witness: such a delivery for a stored order was answered 200 after one call.
C8_Witness ==
  /\ Bound(last) /\ Signed(last) /\ last.status = 200
  /\ OrderEntry(last, "id") = JString(U1) /\ U1 \in DOMAIN orders
  /\ OrderEntry(last, "status") = JString("completed")
  /\ last.body.tx_hash = Some("0xabc")
  /\ Len(last.repoCalls) = 1

Reconciled(row) == <<row.status, row.tx_hash, row.completed_at, row.error_message>>

\* C9: an accepted delivery delivered again right after itself leaves status,
\* txHash, completedAt and errorMessage of every order as the first delivery
\* left them.
C9_ReplayIdempotent ==
  [][(last.op = "HandleWebhook" /\ last.status = 200 /\ last'.replay)
     => /\ DOMAIN orders' = DOMAIN orders
        /\ \A i \in DOMAIN orders : Reconciled(orders'[i]) = Reconciled(orders[i])]_vars

\* C9 witness: a delivery carrying an error text for a stored order was
\* accepted a second time in a row.
C9_Witness ==
  /\ last.replay /\ last.status = 200
  /\ OrderEntry(last, "id") = JString(U1) /\ U1 \in DOMAIN orders
  /\ OrderEntry(last, "error") = JString("boom")
  /\ orders[U1].error_message = Some("boom")

Kept(row) ==
  <<row.id, row.type, row.username, row.recipient_hash, row.quantity, row.months,
    row.amount, row.wallet_type, row.created_at>>

\* C10: an accepted delivery adds and removes no order, leaves id, type,
\* username, recipientHash, quantity, months, amount, walletType and createdAt
\* of the order named by order.id as they were, and leaves every other order
\* entirely as it was.
C10_DeliveryFrame ==
  [][(last'.op = "HandleWebhook" /\ last'.status = 200)
     => /\ DOMAIN orders' = DOMAIN orders
        /\ \A i \in DOMAIN orders :
             IF i = OrderEntry(last', "id")[2]
             THEN Kept(orders'[i]) = Kept(orders[i])
             ELSE orders'[i] = orders[i]]_vars

\* C10 witness: with two orders stored, a delivery for the first was accepted
\* and changed its status, while the second is still as created.
C10_Witness ==
  /\ last.op = "HandleWebhook" /\ last.status = 200 /\ ~last.replay
  /\ OrderEntry(last, "id") = JString(U1)
  /\ DOMAIN orders = {U1, U2}
  /\ orders[U1].status = "failed" /\ orders[U1].updated_at = Now
  /\ orders[U2].status = "pending" /\ orders[U2].updated_at # Now

\* the one status code each client method takes as success
ExpectedCode(op) == IF op \in SyncOps THEN 200 ELSE 202
\* a create request that passes the handler's checks and so reaches the provider
Forwarded(l) == l.op \in CreateOps /\ l.req.json /\ FieldsValid(l.op, l.req)
ApiErrorOf(l, code) == l.err # Nil /\ Val(l.err).api /\ Val(l.err).code = code
DecodeFailed == Some(InternalServerError("Failed to decode response"))
UnexpectedStatus == Some(InternalServerError("Unexpected status code"))
\* completed_at of the reply is absent or RFC 3339, where the method reads it
CompletedAtParses(l) ==
  \/ l.op \notin SyncOps
  \/ IsNil(Val(l.reply.body).completed_at)
  \/ ~IsNil(ParseRFC3339(Val(Val(l.reply.body).completed_at)))

\* C11: a create call answered by the provider with a code other than the
\* method's success code (202 async, 200 sync) ends in a validation error for
\* 400, an unauthorized error for 401, a not-found error for 404 and an
\* internal error for every other code, the other method's success code
\* included; the success code with a body that does not decode ends in an
\* internal error; the success code with a body that decodes is taken.  No
\* rejected reply leads to a call of the store.
C11_StatusClassified ==
  (Forwarded(last) /\ ~last.reply.transport)
  => LET code == last.reply.code IN
     /\ last.providerCalls = 1
     /\ code # ExpectedCode(last.op) =>
          /\ ApiErrorOf(last, IF code \in {400, 401, 404} THEN code ELSE 500)
          /\ code \notin {400, 401, 404} => last.err = UnexpectedStatus
          /\ last.repoCalls = <<>> /\ IsNil(last.order)
     /\ (code = ExpectedCode(last.op) /\ IsNil(last.reply.body)) =>
          /\ last.err = DecodeFailed /\ last.status = 500
          /\ last.repoCalls = <<>> /\ IsNil(last.order)
     /\ (code = ExpectedCode(last.op) /\ ~IsNil(last.reply.body)) =>
          /\ last.err \notin {DecodeFailed, UnexpectedStatus}
          /\ (WellFormedReply(last.reply, code) /\ CompletedAtParses(last))
               => Len(last.repoCalls) = 1

\* C11 witness: an async create answered 200 with a well-formed body ended in
\* the internal error for an unexpected status, without a call to the store.
C11_Witness ==
  /\ last.op = "CreatePremiumGiftAsync" /\ Forwarded(last)
  /\ WellFormedReply(last.reply, 200)
  /\ last.err = UnexpectedStatus /\ last.status = 500
  /\ last.repoCalls = <<>>

\* the store refuses the Order built by l when the database is down or the
\* table tbl already holds its id
StoreRefuses(l, tbl) == l.dbFail \/ l.repoCalls[1].order.ID \in DOMAIN tbl
CreatedAtParses(l) == ~IsNil(ParseRFC3339(Val(l.reply.body).created_at))
OrderIdParses(l) == ~IsNil(UuidParse(Val(l.reply.body).order_id))
Decoded(l) ==
  ~l.reply.transport /\ l.reply.code = ExpectedCode(l.op) /\ ~IsNil(l.reply.body)

\* the error produced by the first step of l that failed, run against tbl
StepError(l, tbl) ==
  IF l.reply.transport THEN TransportError
  ELSE IF l.reply.code # ExpectedCode(l.op) THEN ClassifyStatus(l.reply.code)
  ELSE IF IsNil(l.reply.body) THEN Val(DecodeFailed)
  ELSE IF ~CreatedAtParses(l) \/ ~CompletedAtParses(l) THEN TimeParseError
  ELSE IF ~OrderIdParses(l) THEN UuidParseError
  ELSE StoreError

\* C12 as stated: the error a create operation returns is the error value the
\* failing step produced.
C12_ErrorUnmodified ==
  [][(Forwarded(last') /\ last'.err # Nil) => last'.err = Some(StepError(last', orders))]_vars

\* C12 amended: a create operation returns the Order it built, or an error and
\* no Order; the error is that of the first step that failed: the client's
\* error as the client produced it (transport, status, decode), and for a
\* parse or store failure an internal error naming the step.
C12_FirstErrorReturned ==
  [][Forwarded(last') =>
       LET l == last' IN
       IF ~Decoded(l)
       THEN /\ l.err = Some(StepError(l, orders)) /\ IsNil(l.order)
            /\ l.reply.transport => ~Val(l.err).api /\ l.status = 500
       ELSE IF ~CreatedAtParses(l)
       THEN l.err = Some(InternalServerError("Invalid created_at timestamp")) /\ IsNil(l.order)
       ELSE IF ~CompletedAtParses(l)
       THEN l.err = Some(InternalServerError("Invalid completed_at timestamp")) /\ IsNil(l.order)
       ELSE IF ~OrderIdParses(l)
       THEN l.err = Some(InternalServerError("Invalid order_id")) /\ IsNil(l.order)
       ELSE IF StoreRefuses(l, orders)
       THEN l.err = SaveFailed /\ IsNil(l.order)
       ELSE IsNil(l.err) /\ l.order = Some(l.repoCalls[1].order)
            /\ l.status = ExpectedCode(l.op)]_vars

\* C12 witness: a sync create whose reply has an unreadable created_at and an
\* unreadable order_id ended in the error of the created_at check.
C12_Witness ==
  /\ last.op \in SyncOps /\ Forwarded(last) /\ Decoded(last)
  /\ ~CreatedAtParses(last) /\ ~OrderIdParses(last)
  /\ last.err = Some(InternalServerError("Invalid created_at timestamp"))

\* C13: when CreateOrder fails after the provider accepted the order, the
\* create operation ends in the internal error 'Failed to save order' (500)
\* and returns no Order; it has sent the provider its one request and no
\* other, and the table is as it was, so it does not hold the provider's order.
C13_SaveFailureSurfaced ==
  [][(Forwarded(last') /\ Len(last'.repoCalls) = 1 /\ StoreRefuses(last', orders))
     => /\ last'.err = SaveFailed /\ last'.status = 500
        /\ IsNil(last'.order)
        /\ last'.providerCalls = 1
        /\ last'.repoCalls[1].method = "CreateOrder"
        /\ orders' = orders]_vars

\* C13 witness: the provider completed a sync order, the database was down,
\* the caller got 500 and the table does not hold the order.
C13_Witness ==
  /\ last.op = "CreateStarGiftSync" /\ Forwarded(last) /\ last.dbFail
  /\ Val(last.reply.body).status = "completed"
  /\ Len(last.repoCalls) = 1 /\ last.err = SaveFailed /\ last.status = 500
  /\ last.providerCalls = 1
  /\ Built.ID \notin DOMAIN orders

ExactlyOneOf(type, quantity, months) ==
  /\ type \in {OrderTypeStar, OrderTypePremium}
  /\ type = OrderTypeStar => ~IsNil(quantity) /\ IsNil(months)
  /\ type = OrderTypePremium => IsNil(quantity) /\ ~IsNil(months)

\* C14: every order in the table, and every Order a create operation hands to
\* the store or returns, has quantity and no months when it is a star order
\* and months and no quantity when it is a premium order.
C14_QuantityXorMonths ==
  /\ \A i \in DOMAIN orders :
       ExactlyOneOf(orders[i].type, orders[i].quantity, orders[i].months)
  /\ (last.op \in CreateOps /\ last.repoCalls # <<>>) =>
       ExactlyOneOf(Built.Type, Built.Quantity, Built.Months)
  /\ (last.op \in CreateOps /\ ~IsNil(last.order)) =>
       ExactlyOneOf(Val(last.order).Type, Val(last.order).Quantity, Val(last.order).Months)

\* C14 witness: the table holds a star order and a premium order, and a
\* delivery for the premium order has just been accepted.
C14_Witness ==
  /\ DOMAIN orders = {U1, U2}
  /\ orders[U1].type = OrderTypeStar /\ orders[U2].type = OrderTypePremium
  /\ last.op = "HandleWebhook" /\ last.status = 200
  /\ OrderEntry(last, "id") = JString(U2)
  /\ ~IsNil(orders[U2].months) /\ IsNil(orders[U2].quantity)

\* C15: every Order a sync create hands to the store or returns, and the row
\* stored for it, has completedAt set.
C15_SyncCompletedAtSet ==
  (last.op \in SyncOps /\ last.repoCalls # <<>>)
  => /\ ~IsNil(Built.CompletedAt)
     /\ ~IsNil(last.order) =>
          /\ ~IsNil(Val(last.order).CompletedAt)
          /\ ~IsNil(orders[Val(last.order).ID].completed_at)

\* C16: no order in the table, and no Order a create operation hands to the
\* store or returns, has a txHash unless its status is completed.
C16_TxHashOnlyCompleted ==
  /\ \A i \in DOMAIN orders :
       ~IsNil(orders[i].tx_hash) => orders[i].status = StatusCompleted
  /\ (last.op \in CreateOps /\ last.repoCalls # <<>>) =>
       (~IsNil(Built.TxHash) => Built.Status = StatusCompleted)

\* C17: a create request that ends in an error returns no Order and leaves
\* the table as it was; one that returns an Order has made one request to the
\* provider, answered with the success code and a body whose fields all parse,
\* and then exactly one CreateOrder call, with the Order it returns, by which
\* the table gained that order's row and nothing else.
C17_AllOrNothing ==
  [][last'.op \in CreateOps =>
       LET l == last' IN
       /\ ~IsNil(l.err) => IsNil(l.order) /\ orders' = orders
       /\ IsNil(l.err) =>
            /\ ~IsNil(l.order)
            /\ l.providerCalls = 1 /\ Forwarded(l) /\ Decoded(l)
            /\ CreatedAtParses(l) /\ CompletedAtParses(l) /\ OrderIdParses(l)
            /\ Len(l.repoCalls) = 1 /\ l.repoCalls[1].method = "CreateOrder"
            /\ l.repoCalls[1].order = Val(l.order)
            /\ Val(l.order).ID \notin DOMAIN orders
            /\ DOMAIN orders' = DOMAIN orders \cup {Val(l.order).ID}
            /\ orders'[Val(l.order).ID].id = Val(l.order).ID
            /\ \A i \in DOMAIN orders : orders'[i] = orders[i]]_vars

\* C17 witness: with one order stored, a sync create that reached CreateOrder
\* ended in an error because the database was down, and the table still holds
\* that one order only.
C17_Witness ==
  /\ last.op = "CreatePremiumGiftSync" /\ last.dbFail
  /\ Len(last.repoCalls) = 1 /\ Built.ID = U2
  /\ ~IsNil(last.err) /\ IsNil(last.order)
  /\ DOMAIN orders = {U1}

\* the strings differ in exactly one position
OneByteApart(a, b) ==
  Len(a) = Len(b) /\ Cardinality({i \in 1..Len(a) : a[i] # b[i]}) = 1

\* C18: isValidAPIKey(input, valid) is true exactly when both strings are
\* non-empty and equal byte for byte: true for equal non-empty strings, false
\* for strings one byte apart, for strings of unequal length, and whenever
\* either is empty.
C18_KeyValidIffEqual ==
  last.op = "isValidAPIKey" =>
    /\ last.valid = (last.inputKey # <<>> /\ last.validKey # <<>>
                       /\ last.inputKey = last.validKey)
    /\ OneByteApart(last.inputKey, last.validKey) => ~last.valid
    /\ Len(last.inputKey) # Len(last.validKey) => ~last.valid
    /\ (last.inputKey = <<>> \/ last.validKey = <<>>) => ~last.valid

\* C18 witness: two keys of three bytes that differ in the first byte only
\* were compared and found different.
C18_Witness ==
  /\ last.op = "isValidAPIKey" /\ ~last.valid
  /\ last.inputKey = <<97, 98, 98>> /\ last.validKey = <<65, 98, 98>>

\* the checks of the signature: the handler's when a secret is configured,
\* and the middleware's under any secret, on a body that was read
Verified(l) ==
  /\ l.op \in {"HandleWebhook", "VerifyWebhookSignature"}
  /\ l.body.readable
  /\ l.op = "HandleWebhook" => webhookSecret # ""

\* C19: a body arriving with the signature computed, under the secret, over
\* any other body is rejected as unauthorized (401); a body arriving with the
\* signature computed over itself is not.
C19_TamperRejected ==
  Verified(last) =>
    /\ \A b \in WebhookBodies \cup {Tamper(last.body)} :
         (b # last.body /\ last.signature = HexHmac(webhookSecret, b)) => last.status = 401
    /\ last.signature = HexHmac(webhookSecret, last.body) => last.status # 401

\* C19 witness: the middleware, under the empty secret, rejected a complete
\* delivery for a stored order that carried the signature of the body before
\* its tx_hash was replaced.
C19_Witness ==
  /\ last.op = "VerifyWebhookSignature" /\ webhookSecret = ""
  /\ last.body.readable /\ last.body.json
  /\ OrderEntry(last, "id") = JString(U1) /\ U1 \in DOMAIN orders
  /\ last.signature = HexHmac(webhookSecret, Tamper(last.body))
  /\ last.status = 401

\* C20: a step that changes status, txHash, completedAt or errorMessage of an
\* order already in the table, or removes the order, is a webhook delivery;
\* no create request does, also when the provider answers it with the id of
\* an order already stored.
C20_OnlyWebhookReconciles ==
  [][\A i \in DOMAIN orders :
       (i \notin DOMAIN orders' \/ Reconciled(orders'[i]) # Reconciled(orders[i]))
         => last'.op = "HandleWebhook"]_vars

\* C20 witness: a sync create was answered with the id of a stored order that
\* a delivery had completed; it reached CreateOrder and the stored order still
\* has the delivery's status and transaction.
C20_Witness ==
  /\ last.op = "CreateStarGiftSync" /\ Len(last.repoCalls) = 1
  /\ Built.ID = U1 /\ Built.Status = StatusFailed
  /\ U1 \in DOMAIN orders
  /\ orders[U1].status = StatusCompleted /\ orders[U1].tx_hash = Some("0xabc")

\* the four kinds of the error taxonomy
TaxonomyCodes == {400, 401, 404, 500}

\* C21: the error of a create request whose upstream call failed, a transport
\* failure included, is an APIError of one of the four kinds, the kind the
\* client gave it, and the caller is answered with that kind's status.
C21_ClientErrorsClassified ==
  (Forwarded(last) /\ ~Decoded(last))
  => /\ ~IsNil(last.err)
     /\ Val(last.err).api /\ Val(last.err).code \in TaxonomyCodes
     /\ last.status = Val(last.err).code

\* the text of the internal error of each parse check
ParseErrorText(l) ==
  IF ~CreatedAtParses(l) THEN "Invalid created_at timestamp"
  ELSE IF ~CompletedAtParses(l) THEN "Invalid completed_at timestamp"
  ELSE "Invalid order_id"

\* C23: a create request whose reply decodes but carries a created_at that is
\* not RFC 3339, on the sync path a completed_at that is present and not RFC
\* 3339, or an order_id that is not a UUID, ends in an internal error, 500,
\* without a call to CreateOrder and with the table as it was; the error is
\* that of the first failing check in the order created_at, completed_at,
\* order_id.  An async create does not look at completed_at.
C23_ParseFailureInternal ==
  [][(/\ Forwarded(last') /\ Decoded(last')
      /\ ~CreatedAtParses(last') \/ ~CompletedAtParses(last') \/ ~OrderIdParses(last'))
     => /\ ApiErrorOf(last', 500) /\ last'.status = 500
        /\ Val(last'.err).message = ParseErrorText(last')
        /\ last'.repoCalls = <<>> /\ IsNil(last'.order)
        /\ orders' = orders]_vars

\* C23 witness: a sync create whose reply has a good created_at, a
\* completed_at that is no timestamp and an order_id that is no UUID ended in
\* the error of the completed_at check.
C23_Witness ==
  /\ last.op = "CreateStarGiftSync" /\ Forwarded(last) /\ Decoded(last)
  /\ CreatedAtParses(last) /\ ~CompletedAtParses(last) /\ ~OrderIdParses(last)
  /\ last.err = Some(InternalServerError("Invalid completed_at timestamp"))
  /\ last.repoCalls = <<>>

\* what a delivery of body b does to table tbl when a secret is configured
\* and b carries its signature under that secret
AsSigned(b, tbl, dbFail) ==
  HandleWebhookHandler("s3cret", HexHmac("s3cret", b), b, tbl, dbFail)

\* C24: with no secret configured a delivery is never answered 401, whatever
\* its signature header; a body that can be read gets the answer, makes the
\* call to the store and leaves the table as the same body would under a
\* configured secret with its correct signature.
C24_NoSecretNoCheck ==
  [][(last'.op = "HandleWebhook" /\ webhookSecret = "")
     => /\ last'.status # 401
        /\ last'.body.readable =>
             LET signed == AsSigned(last'.body, orders, last'.dbFail) IN
             /\ last'.err = signed.err /\ last'.code = signed.code
             /\ last'.repoCalls = signed.repoCalls
             /\ orders' = signed.tbl]_vars

\* C24 witness: with no secret configured, a delivery signed under a guessed
\* secret completed a stored pending order.
C24_Witness ==
  /\ webhookSecret = "" /\ last.op = "HandleWebhook"
  /\ last.signature = HexHmac("guess", last.body)
  /\ OrderEntry(last, "id") = JString(U1) /\ U1 \in DOMAIN orders
  /\ OrderEntry(last, "status") = JString("completed")
  /\ last.status = 200 /\ Len(last.repoCalls) = 1
  /\ orders[U1].status = StatusCompleted

\* the middleware lets the delivery through; the handler's inline check does
MiddlewareAccepts(secret, signature, body) ==
  VerifyWebhookSignature(secret, signature, body, EmptyTable).code # 401
HandlerAccepts(secret, signature, body) ==
  LET out == HandleWebhookHandler(secret, signature, body, EmptyTable, FALSE) IN
  ~(~IsNil(out.err) /\ Val(out.err) \in {UnauthorizedError("Invalid webhook signature"),
                                         InternalServerError("Failed to read webhook body")})

\* C29 as stated: on every secret, body and signature header, the empty
\* secret included, the handler's inline check accepts a delivery exactly when
\* the middleware does.
C29_ChecksAgree ==
  last.op \in {"HandleWebhook", "VerifyWebhookSignature"} =>
    (HandlerAccepts(webhookSecret, last.signature, last.body)
       <=> MiddlewareAccepts(webhookSecret, last.signature, last.body))

\* C29 amended: under a configured secret and on a body that can be read, the
\* handler's inline check accepts a delivery exactly when the middleware does,
\* and a delivery handled by either is answered 401 exactly when its header is
\* not the hex HMAC of the body; under the empty secret the handler accepts
\* every delivery while the middleware accepts only the HMAC under the empty key.
C29_ChecksAgreeUnderSecret ==
  (last.op \in {"HandleWebhook", "VerifyWebhookSignature"} /\ last.body.readable)
  => IF webhookSecret # ""
     THEN /\ HandlerAccepts(webhookSecret, last.signature, last.body)
               <=> MiddlewareAccepts(webhookSecret, last.signature, last.body)
          /\ (last.status = 401) <=> ~Signed(last)
     ELSE /\ HandlerAccepts(webhookSecret, last.signature, last.body)
          /\ MiddlewareAccepts(webhookSecret, last.signature, last.body) <=> Signed(last)
          /\ (last.status = 401) <=> (last.op = "VerifyWebhookSignature" /\ ~Signed(last))

\* C29 witness: under a configured secret the middleware rejected a delivery
\* signed under a guessed secret.
C29_Witness ==
  /\ last.op = "VerifyWebhookSignature" /\ webhookSecret # ""
  /\ last.body.readable /\ last.body.json
  /\ last.signature = HexHmac("guess", last.body)
  /\ last.status = 401

\* header is key with white space before and after it, key itself having none
\* at either end
Wraps(header, key) ==
  /\ key # <<>> /\ key[1] \notin WhiteSpace /\ key[Len(key)] \notin WhiteSpace
  /\ \E i \in 1..Len(header) :
       /\ i + Len(key) - 1 <= Len(header)
       /\ SubSeq(header, i, i + Len(key) - 1) = key
       /\ \A j \in 1..Len(header) : (j < i \/ j > i + Len(key) - 1) => header[j] \in WhiteSpace
Blank(header) == \A j \in 1..Len(header) : header[j] \in WhiteSpace

PassThroughOps ==
  {"SearchStarRecipient", "SearchPremiumRecipient", "GetPremiumPackages", "GetWalletBalance"}

\* C22: a pass-through call that the provider answered with a status code
\* outside 200..299 hands its caller the error the create methods make of
\* that code (400 validation, 401 unauthorized, 404 not found, any other
\* internal), and never a 200.
C22_PassThroughClassified ==
  (/\ last.op \in PassThroughOps /\ last.providerCalls = 1
   /\ ~last.reply.transport /\ last.reply.code \notin 200..299)
  => /\ ApiErrorOf(last, ClassifyStatus(last.reply.code).code)
     /\ last.status = ClassifyStatus(last.reply.code).code
     /\ last.status # 200

\* a step in which one delivery's UPDATE runs while another delivery is in flight
ConcurrentUpdate ==
  \E k, j \in 1..MaxDeliveries :
    /\ k # j
    /\ inflight.hooks[k].pc = "received" /\ inflight'.hooks[k].pc = "done"
    /\ inflight.hooks[j].pc = "received"

\* C25: the UPDATE of a webhook delivery that runs while another delivery
\* for the same order is being handled leaves every stored status within
\* the enumeration, leaves a completed or failed status as it was, and
\* leaves a tx_hash only on a completed order.
C25_RaceKeepsInvariants ==
  [][ConcurrentUpdate =>
       \A i \in DOMAIN orders' :
         /\ orders'[i].status \in OrderStatusEnum
         /\ (i \in DOMAIN orders /\ Terminal(orders[i].status))
              => orders'[i].status = orders[i].status
         /\ ~IsNil(orders'[i].tx_hash) => orders'[i].status = StatusCompleted]_vars

\* the status a delivery carries
DeliveredStatus(k) == Val(AsString(Entry(inflight.hooks[k].body.order, "status")))
\* every delivery that was made carried a terminal status and was answered 200
AllAcknowledgedTerminal ==
  /\ \E k \in 1..MaxDeliveries : inflight.hooks[k].pc = "done"
  /\ \A k \in 1..MaxDeliveries :
       \/ inflight.hooks[k].pc = "idle"
       \/ /\ inflight.hooks[k].pc = "done" /\ inflight.hooks[k].status = 200
          /\ Terminal(DeliveredStatus(k))

\* C26: when an asynchronous create has returned 202 and every webhook the
\* provider delivered about the order carried a terminal status and was
\* acknowledged with 200, the stored order has the status of one of those
\* deliveries, in whatever order the steps ran.
C26_AcknowledgedWebhookSettles ==
  (/\ inflight.create.pc = "returned" /\ inflight.create.status = 202
   /\ AllAcknowledgedTerminal)
  => /\ U1 \in DOMAIN orders
     /\ \E k \in 1..MaxDeliveries :
          inflight.hooks[k].pc = "done" /\ orders[U1].status = DeliveredStatus(k)

\* C27: a create request calls httpClient.Do once, whatever comes back and
\* whatever retry count is configured: the count of calls is 1 from the
\* moment the request is sent, and never more.
C27_NoRetries ==
  /\ inflight.create.attempts <= 1
  /\ inflight.create.pc # "idle" => inflight.create.attempts = 1
C27_Witness ==
  /\ inflight.cfg.MaxRetries = 3
  /\ inflight.create.pc = "returned" /\ inflight.create.ended = "reply"
  /\ inflight.create.reply.transport
  /\ inflight.create.attempts = 1 /\ inflight.create.status = 500

\* a create request that is waiting for the provider returns to its caller
EventuallyReturns == (inflight.create.pc = "waiting") ~> (inflight.create.pc = "returned")
\* a call ended by the timeout ended after the configured seconds, with an
\* error for the caller and no order written
TimeoutEndsCall ==
  (inflight.create.pc = "returned" /\ inflight.create.ended = "timeout")
  => /\ inflight.create.elapsed = inflight.cfg.Timeout
     /\ ~IsNil(inflight.create.err)
     /\ inflight.create.repoCalls = <<>> /\ ~inflight.create.stored
\* a call during which the caller cancelled ended there, with an error and no
\* order written
CancelEndsCall ==
  /\ (inflight.create.pc = "waiting" /\ inflight.create.cancelled)
       ~> (inflight.create.pc = "returned" /\ inflight.create.ended = "cancel")
  /\ [](inflight.create.pc = "returned" /\ inflight.create.cancelled
          => /\ ~IsNil(inflight.create.err)
             /\ inflight.create.repoCalls = <<>> /\ ~inflight.create.stored)

\* C28: a create request that is waiting for the provider returns to its
\* caller even if the provider never answers; the call ends with an error
\* once the configured timeout has passed or once the caller's request is
\* cancelled, and no order is written then.
C28_ReturnsWithoutProvider ==
  /\ EventuallyReturns
  /\ []TimeoutEndsCall
  /\ CancelEndsCall


====
